---------------------------- MODULE Spec2Model ----------------------------
(***************************************************************************)
(* A model of the AuraBot screen-memory assistant.                         *)
(*                                                                         *)
(* Part I  : the pipeline orchestrator (internal/service/service.go):      *)
(*           Run, captureLoop, processCapture, analyzeAndStore, GetStatus, *)
(*           stop, with one goroutine per analyse-and-store job.           *)
(* Part II : the quick-enhance controller (quickenhance/hotkey.go): the    *)
(*           clipboard save / use / restore steps of getSelectedText and   *)
(*           PasteEnhanced and their delayed restore goroutines.           *)
(* Part III: the prompt enhancer (package enhancer) and the extension HTTP *)
(*           API (server/server.go; HTTPHandler of the Swift application). *)
(* Part IV : the desktop host (cmd/app/app.go): Startup, Shutdown, the     *)
(*           listener of the extension server and the hotkey listener.     *)
(* Part V  : the backend clients: Store.Search and Store.Add of the two    *)
(*           memory stores, parseResponse and the chat client of the       *)
(*           vision clients, and the resize step of the capturers.         *)
(* Part VI : the operations App exposes to the frontend: GetStatus,        *)
(*           GetConfig, Chat, UpdateConfig, ToggleCapture.                 *)
(***************************************************************************)
EXTENDS Integers, Sequences, FiniteSets, TLC

(***************************************************************************)
(* Bounds of the model.                                                    *)
(***************************************************************************)
\* number of ticker events the ticker delivers in one behaviour
MaxTicks == 1

\* number of hotkey presses in one behaviour
MaxHotkeys == 2

\* number of PasteEnhanced requests in one behaviour
MaxPastes == 1

\* number of concurrent callers of the enhancer and the HTTP API
MaxCalls == 2

\* length of the longest list of hits a search returns
MaxResults == 5

VARIABLES
    \* ---- Part I: Service ------------------------------------------------
    cfgEnabled,     \* config.Capture.Enabled
    cfgProcess,     \* config.App.ProcessOnCapture
    ctxCancelled,   \* the context passed to Run is cancelled
    runPc,          \* position of the goroutine that called Run
    runErr,         \* what Run returned: "none" (not yet), "nil", "llm", "mem"
    running,        \* Service.running
    stopClosed,     \* Service.stopChan is closed
    wg,             \* counter of Service.wg
    lastState,      \* Service.lastState
    loopPc,         \* position of the captureLoop goroutine
    tickPending,    \* ticker.C (buffer of one) holds a tick
    nTicks,         \* ticks delivered into ticker.C so far
    nCaptures,      \* calls of processCapture so far
    jobPc,          \* per capture turn: position of its job
    jobResult,      \* per capture turn: the AnalysisResult of AnalyzeScreen
    jobAdded,       \* per capture turn: the content handed to Store.Add
    callLog,        \* per capture turn: external calls issued, in order
    statusPc,       \* position of a GetStatus caller
    statusOut,      \* the map the last GetStatus call returned
    cfgInterval,    \* config.Capture.IntervalSeconds
    cfgQuality,     \* config.Capture.Quality
    tickerPeriod,   \* seconds the ticker was created with; 0: no ticker
    now,            \* time since the service was created, in half seconds
    captureTime,    \* per capture turn: half seconds CapturePrimary takes
    jobStamp,       \* per capture turn: cap.Timestamp
    recent,         \* per capture turn: what GetRecent answers its job
    jobContext,     \* per capture turn: previous context given to AnalyzeScreen
    jobMeta,        \* per capture turn: Metadata.Timestamp handed to Store.Add
    \* ---- Part II: QuickEnhance ------------------------------------------
    clipboard,      \* text on the OS clipboard
    selection,      \* text selected in the foreground application
    original,       \* clipboard text before the first hotkey press
    hkPc,           \* per hotkey press: position in handleHotkey
    hkSaved,        \* per hotkey press: savedClipboard of getSelectedText
    uiText,         \* text of the last hotkey press handed to the callback
    pastePc,        \* per paste request: position in PasteEnhanced
    pasteSaved,     \* per paste request: savedClipboard of PasteEnhanced
    \* ---- Part III: Enhancer and HTTP API --------------------------------
    store,          \* the hits the memory backend answers a search with
    callReq,        \* per caller: the request it makes
    callPc,         \* per caller: position of its handler goroutine
    callSearch,     \* per caller: the Store.Search call issued for it
    callReg,        \* per caller: the value loaded by enhancementsMade++
    callResult,     \* per caller: what Enhance computed and returned
    callResp,       \* per caller: the HTTP response
    statsMu,        \* Enhancer.statsMu: 0, or the caller holding the lock
    enhancementsMade, \* Enhancer.enhancementsMade
    lastEnhancement, \* Enhancer.lastEnhancement: 0, or the caller that set it
    \* ---- Part IV: the desktop host ---------------------------------------
    appPc,          \* "created", "started" (Startup returned), "shutdown"
    cfgPort,        \* config.Extension.Port
    cfgExtension,   \* config.Extension.Enabled
    httpAddr,       \* http.Server.Addr of the extension server
    httpServer,     \* "none", "starting", "listening", "failed", "closed"
    quickEnhance,   \* App.quickEnhance is not nil
    qeRunning,      \* QuickEnhance.running
    qeCancelled,    \* QuickEnhance.ctx is cancelled
    listenerPc,     \* position of the hotkeyListener goroutine
    hotkey,         \* the key combination registered with the OS
    attempts,       \* the combinations RegisterHotKey was called with
    appLog,         \* the lines printed to the log
    configFile,     \* the capture settings in config.yaml
    appOut,         \* what the last operation of App returned
    \* ---- Part V: the backend clients -------------------------------------
    libCall,        \* the client call under way: function and arguments
    libRet          \* what the call returned

\* the interval, the clock and what the job goroutines exchange with the
\* capturer and the memory store
envVars == <<cfgInterval, cfgQuality, tickerPeriod, now, captureTime, jobStamp, recent,
             jobContext, jobMeta>>

svcVars == <<cfgEnabled, cfgProcess, ctxCancelled, runPc, runErr, running,
             stopClosed, wg, lastState, loopPc, tickPending, nTicks,
             nCaptures, jobPc, jobResult, jobAdded, callLog, statusPc,
             statusOut, envVars>>

qeVars == <<clipboard, selection, original, hkPc, hkSaved, uiText, pastePc,
            pasteSaved>>

apiVars == <<store, callReq, callPc, callSearch, callReg, callResult,
             callResp, statsMu, enhancementsMade, lastEnhancement>>

appVars == <<appPc, cfgPort, cfgExtension, httpAddr, httpServer, quickEnhance,
             qeRunning, qeCancelled, listenerPc, hotkey, attempts, appLog,
             configFile, appOut>>

libVars == <<libCall, libRet>>

vars == <<svcVars, qeVars, apiVars, appVars, libVars>>

(***************************************************************************)
(* Part I.  The pipeline orchestrator.                                     *)
(***************************************************************************)

\* one turn per processCapture call: the immediate one and one per tick
Turns == 1 .. (MaxTicks + 1)

\* what the vision client can return for a capture (llm.AnalysisResult)
Results ==
    { [summary |-> "Editing a Markdown file", context |-> "work",
       user_intent |-> "drafting a note"],
      [summary |-> "not json here; just prose", context |-> "unknown",
       user_intent |-> "unknown"] }

NoResult == [summary |-> "", context |-> "", user_intent |-> ""]

NoContent == "<none>"

\* a string read or left behind by unsynchronised accesses to lastState
Torn == "<torn>"

\* A Go string is a two-word header (data pointer, length); an assignment
\* writes the two words and a read loads them, one after the other.
GoString(s) == [ptr |-> s, len |-> s]

\* the text a string header denotes; words of two different strings are torn
StringOf(h) == IF h.ptr = h.len THEN h.ptr ELSE Torn

NoStatus == [running |-> FALSE, ptr |-> "<no call>", len |-> "<no call>"]

\* faulty variant of memoryContent: context and intent arguments exchanged
memoryContent_SwappedFields(result) ==
    result.summary \o " | Context: " \o result.user_intent
                   \o " | Intent: " \o result.context

\* fmt.Sprintf("%s | Context: %s | Intent: %s", Summary, Context, UserIntent)
memoryContent(result) ==
    result.summary \o " | Context: " \o result.context
                   \o " | Intent: " \o result.user_intent

\* positions of a job that has ended
Ended == {"analyzeFailed", "addFailed", "stored"}

\* positions of a job whose goroutine exists and has not returned
Active == {"start", "getRecent", "analyze", "add", "write"}

InFlight == {j \in Turns : jobPc[j] \in Active}

\* no time: a turn that has made no capture, a job that has built no metadata
NoStamp == 0 - 1

\* the panic of time.NewTicker on a non-positive duration ends the process
Crashed == loopPc = "panicked"

\* time.Duration(n) * time.Second, in half seconds
Seconds(n) == 2 * n

\* t.Format(time.RFC3339): the time to the second, fractions dropped
RFC3339(t) == t \div 2

\* what Store.GetRecent hands back: (nil, err), or the decoded list
NoMemories == [err |-> FALSE, memories |-> <<>>]

RecentAnswers ==
    { [err |-> TRUE, memories |-> <<>>],
      NoMemories,
      [err |-> FALSE, memories |-> <<"Reading mail", "Editing a note">>] }

\* the loop over memories: WriteString(m.Content); WriteString(" ")
RECURSIVE previousContext(_)
previousContext(memories) ==
    IF memories = <<>> THEN ""
    ELSE Head(memories).content \o " " \o previousContext(Tail(memories))

\* []Memory of the contents of an answer
Memories(answer) == [i \in DOMAIN answer.memories |->
                        [content |-> answer.memories[i]]]

\* faulty variant of stopsAfterGetRecent: an error of GetRecent ends the job
stopsAfterGetRecent_OnError(answer) == answer.err

\* analyzeAndStore: the error of GetRecent is only logged (if Verbose)
stopsAfterGetRecent(answer) == FALSE

\* values of interval_seconds in config.yaml
Intervals == {0, 1, 30}

\* half seconds a capture of the primary display can take
CaptureTimes == {1, 2}

\* the interval of the configuration, the durations of the captures and the
\* answers of the memory store; no ticker, no capture and no job yet
SvcEnv(interval, durations, answers) ==
    /\ cfgInterval = interval
    /\ cfgQuality = 60
    /\ tickerPeriod = 0
    /\ now = 0
    /\ captureTime = durations
    /\ jobStamp = [j \in Turns |-> NoStamp]
    /\ recent = answers
    /\ jobContext = [j \in Turns |-> NoContent]
    /\ jobMeta = [j \in Turns |-> NoStamp]

SvcInit ==
    /\ cfgEnabled \in BOOLEAN
    /\ cfgProcess \in BOOLEAN
    /\ ctxCancelled = FALSE
    /\ runPc = "idle"
    /\ runErr = "none"
    /\ running = FALSE
    /\ stopClosed = FALSE
    /\ wg = 0
    /\ lastState = GoString("")
    /\ loopPc = "none"
    /\ tickPending = FALSE
    /\ nTicks = 0
    /\ nCaptures = 0
    /\ jobPc = [j \in Turns |-> "none"]
    /\ jobResult = [j \in Turns |-> NoResult]
    /\ jobAdded = [j \in Turns |-> NoContent]
    /\ callLog = [j \in Turns |-> <<>>]
    /\ statusPc = "idle"
    /\ statusOut = NoStatus
    /\ SvcEnv(30, [j \in Turns |-> 1], [j \in Turns |-> NoMemories])

\* ---- the context passed to Run ------------------------------------------
Cancel ==
    /\ ~ctxCancelled
    /\ ctxCancelled' = TRUE
    /\ UNCHANGED <<cfgEnabled, cfgProcess, runPc, runErr, running, stopClosed,
                   wg, lastState, loopPc, tickPending, nTicks, nCaptures,
                   jobPc, jobResult, jobAdded, callLog, statusPc, statusOut>>
    /\ UNCHANGED envVars
    /\ UNCHANGED <<qeVars, apiVars, appVars, libVars>>

\* ---- Service.Run ---------------------------------------------------------
\* Run, first half of checkDependencies: llm.CheckHealth(ctx)
RunCheckLLM ==
    /\ runPc = "idle"
    /\ \E healthy \in BOOLEAN :
          IF healthy /\ ~ctxCancelled
          THEN runPc' = "checkMem" /\ runErr' = runErr
          ELSE runPc' = "returned" /\ runErr' = "llm"
    /\ UNCHANGED <<cfgEnabled, cfgProcess, ctxCancelled, running, stopClosed,
                   wg, lastState, loopPc, tickPending, nTicks, nCaptures,
                   jobPc, jobResult, jobAdded, callLog, statusPc, statusOut>>
    /\ UNCHANGED envVars
    /\ UNCHANGED <<qeVars, apiVars, appVars, libVars>>

\* Run, second half of checkDependencies: memory.CheckHealth()
RunCheckMem ==
    /\ runPc = "checkMem"
    /\ \E healthy \in BOOLEAN :
          IF healthy
          THEN runPc' = "start" /\ runErr' = runErr
          ELSE runPc' = "returned" /\ runErr' = "mem"
    /\ UNCHANGED <<cfgEnabled, cfgProcess, ctxCancelled, running, stopClosed,
                   wg, lastState, loopPc, tickPending, nTicks, nCaptures,
                   jobPc, jobResult, jobAdded, callLog, statusPc, statusOut>>
    /\ UNCHANGED envVars
    /\ UNCHANGED <<qeVars, apiVars, appVars, libVars>>

\* Run: s.running = true; if Capture.Enabled { wg.Add(1); go captureLoop },
\* and captureLoop creates its ticker: time.NewTicker(IntervalSeconds * Second)
\* panics when the duration is not positive
RunStart ==
    /\ runPc = "start"
    /\ running' = TRUE
    /\ IF cfgEnabled
       THEN /\ wg' = wg + 1
            /\ loopPc' = IF cfgInterval > 0 THEN "first" ELSE "panicked"
            /\ tickerPeriod' = IF cfgInterval > 0 THEN cfgInterval ELSE 0
       ELSE wg' = wg /\ loopPc' = loopPc /\ tickerPeriod' = tickerPeriod
    /\ runPc' = "waiting"
    /\ UNCHANGED <<cfgEnabled, cfgProcess, ctxCancelled, runErr, stopClosed,
                   lastState, tickPending, nTicks, nCaptures, jobPc,
                   jobResult, jobAdded, callLog, statusPc, statusOut>>
    /\ UNCHANGED <<cfgInterval, cfgQuality, now, captureTime, jobStamp, recent,
                   jobContext, jobMeta>>
    /\ UNCHANGED <<qeVars, apiVars, appVars, libVars>>

\* faulty variant of stop: the running flag is left set
stop_KeepRunning ==
    /\ runPc = "waiting"
    /\ ctxCancelled
    /\ stopClosed' = TRUE
    /\ runPc' = "joining"
    /\ UNCHANGED <<cfgEnabled, cfgProcess, ctxCancelled, runErr, running, wg,
                   lastState, loopPc, tickPending, nTicks, nCaptures, jobPc,
                   jobResult, jobAdded, callLog, statusPc, statusOut>>
    /\ UNCHANGED envVars
    /\ UNCHANGED <<qeVars, apiVars, appVars, libVars>>

\* Run: <-ctx.Done(), then stop: running = false; close(stopChan)
stop ==
    /\ runPc = "waiting"
    /\ ctxCancelled
    /\ running' = FALSE
    /\ stopClosed' = TRUE
    /\ runPc' = "joining"
    /\ UNCHANGED <<cfgEnabled, cfgProcess, ctxCancelled, runErr, wg,
                   lastState, loopPc, tickPending, nTicks, nCaptures, jobPc,
                   jobResult, jobAdded, callLog, statusPc, statusOut>>
    /\ UNCHANGED envVars
    /\ UNCHANGED <<qeVars, apiVars, appVars, libVars>>

\* faulty variant of WaitGroupDone: stop does not wait for the goroutines
WaitSkipped == TRUE

\* s.wg.Wait() returns
WaitGroupDone == wg = 0

\* stop: s.wg.Wait(); Run: return nil
RunReturn ==
    /\ runPc = "joining"
    /\ WaitGroupDone
    /\ runPc' = "returned"
    /\ runErr' = "nil"
    /\ UNCHANGED <<cfgEnabled, cfgProcess, ctxCancelled, running, stopClosed,
                   wg, lastState, loopPc, tickPending, nTicks, nCaptures,
                   jobPc, jobResult, jobAdded, callLog, statusPc, statusOut>>
    /\ UNCHANGED envVars
    /\ UNCHANGED <<qeVars, apiVars, appVars, libVars>>

\* ---- Service.captureLoop and processCapture ----------------------------
\* the time of the k-th tick of the ticker, created when Run started
tickTime(k) == k * Seconds(tickerPeriod)

\* time.Ticker delivers a tick into ticker.C unless one is still buffered:
\* the k-th tick is due at tickTime(k), or was due while a capture was made
Tick ==
    /\ loopPc \in {"first", "select"}
    /\ ~tickPending
    /\ nTicks < MaxTicks
    /\ tickPending' = TRUE
    /\ nTicks' = nTicks + 1
    /\ now' = IF now >= tickTime(nTicks + 1) THEN now ELSE tickTime(nTicks + 1)
    /\ UNCHANGED <<cfgEnabled, cfgProcess, ctxCancelled, runPc, runErr,
                   running, stopClosed, wg, lastState, loopPc, nCaptures,
                   jobPc, jobResult, jobAdded, callLog, statusPc, statusOut>>
    /\ UNCHANGED <<cfgInterval, cfgQuality, tickerPeriod, captureTime, jobStamp, recent,
                   jobContext, jobMeta>>
    /\ UNCHANGED <<qeVars, apiVars, appVars, libVars>>

\* processCapture: CapturePrimary (Timestamp: time.Now() once the image is
\* captured, resized and compressed), then the job goroutine unless the capture
\* failed or ProcessOnCapture is off
processCapture(captured) ==
    /\ nCaptures' = nCaptures + 1
    /\ now' = now + captureTime[nCaptures + 1]
    /\ jobStamp' = IF captured
                   THEN [jobStamp EXCEPT ![nCaptures + 1] =
                            now + captureTime[nCaptures + 1]]
                   ELSE jobStamp
    /\ IF ~captured
       THEN /\ jobPc' = [jobPc EXCEPT ![nCaptures + 1] = "captureFailed"]
            /\ wg' = wg
       ELSE IF ~cfgProcess
       THEN /\ jobPc' = [jobPc EXCEPT ![nCaptures + 1] = "skipped"]
            /\ wg' = wg
       ELSE /\ jobPc' = [jobPc EXCEPT ![nCaptures + 1] = "start"]
            /\ wg' = wg + 1

\* faulty variant of loopAfterTurn: a failed capture ends the loop
loopAfterTurn_StopOnFailure(captured) ==
    IF captured THEN "select" ELSE "exited"

\* captureLoop: where the loop stands after a turn of processCapture
loopAfterTurn(captured) == "select"

\* captureLoop: "Do first capture immediately"
LoopFirst ==
    /\ loopPc = "first"
    /\ \E captured \in BOOLEAN :
          /\ processCapture(captured)
          /\ loopPc' = loopAfterTurn(captured)
    /\ UNCHANGED <<cfgEnabled, cfgProcess, ctxCancelled, runPc, runErr,
                   running, stopClosed, lastState, tickPending, nTicks,
                   jobResult, jobAdded, callLog, statusPc, statusOut>>
    /\ UNCHANGED <<cfgInterval, cfgQuality, tickerPeriod, captureTime, recent,
                   jobContext, jobMeta>>
    /\ UNCHANGED <<qeVars, apiVars, appVars, libVars>>

\* captureLoop: select chose case <-ticker.C
LoopTick ==
    /\ loopPc = "select"
    /\ tickPending
    /\ tickPending' = FALSE
    /\ \E captured \in BOOLEAN :
          /\ processCapture(captured)
          /\ loopPc' = loopAfterTurn(captured)
    /\ UNCHANGED <<cfgEnabled, cfgProcess, ctxCancelled, runPc, runErr,
                   running, stopClosed, lastState, nTicks, jobResult,
                   jobAdded, callLog, statusPc, statusOut>>
    /\ UNCHANGED <<cfgInterval, cfgQuality, tickerPeriod, captureTime, recent,
                   jobContext, jobMeta>>
    /\ UNCHANGED <<qeVars, apiVars, appVars, libVars>>

\* captureLoop: select chose case <-s.stopChan; deferred wg.Done
LoopStop ==
    /\ loopPc = "select"
    /\ stopClosed
    /\ loopPc' = "exited"
    /\ wg' = wg - 1
    /\ UNCHANGED <<cfgEnabled, cfgProcess, ctxCancelled, runPc, runErr,
                   running, stopClosed, lastState, tickPending, nTicks,
                   nCaptures, jobPc, jobResult, jobAdded, callLog, statusPc,
                   statusOut>>
    /\ UNCHANGED envVars
    /\ UNCHANGED <<qeVars, apiVars, appVars, libVars>>

\* captureLoop: select chose case <-ctx.Done(); deferred wg.Done
LoopCtxDone ==
    /\ loopPc = "select"
    /\ ctxCancelled
    /\ loopPc' = "exited"
    /\ wg' = wg - 1
    /\ UNCHANGED <<cfgEnabled, cfgProcess, ctxCancelled, runPc, runErr,
                   running, stopClosed, lastState, tickPending, nTicks,
                   nCaptures, jobPc, jobResult, jobAdded, callLog, statusPc,
                   statusOut>>
    /\ UNCHANGED envVars
    /\ UNCHANGED <<qeVars, apiVars, appVars, libVars>>

\* ---- Service.analyzeAndStore, one goroutine per job -----------------------
\* the goroutine starts and issues s.memory.GetRecent (it takes no context)
JobGetRecent(j) ==
    /\ jobPc[j] = "start"
    /\ jobPc' = [jobPc EXCEPT ![j] = "getRecent"]
    /\ callLog' = [callLog EXCEPT ![j] = Append(@, "get_recent")]
    /\ UNCHANGED <<cfgEnabled, cfgProcess, ctxCancelled, runPc, runErr,
                   running, stopClosed, wg, lastState, loopPc, tickPending,
                   nTicks, nCaptures, jobResult, jobAdded, statusPc,
                   statusOut>>
    /\ UNCHANGED envVars
    /\ UNCHANGED <<qeVars, apiVars, appVars, libVars>>

\* GetRecent has returned (its error is only logged); the previous context is
\* built from the memories (nil after an error) and s.llm.AnalyzeScreen(ctx)
\* is issued, which fails at once when ctx is already cancelled
JobAnalyze(j) ==
    /\ jobPc[j] = "getRecent"
    /\ IF stopsAfterGetRecent(recent[j])
       THEN /\ jobPc' = [jobPc EXCEPT ![j] = "analyzeFailed"]
            /\ wg' = wg - 1
            /\ UNCHANGED <<callLog, jobContext>>
       ELSE /\ callLog' = [callLog EXCEPT ![j] = Append(@, "analyze")]
            /\ jobContext' = [jobContext EXCEPT ![j] =
                                 previousContext(Memories(recent[j]))]
            /\ IF ctxCancelled
               THEN /\ jobPc' = [jobPc EXCEPT ![j] = "analyzeFailed"]
                    /\ wg' = wg - 1
               ELSE /\ jobPc' = [jobPc EXCEPT ![j] = "analyze"]
                    /\ wg' = wg
    /\ UNCHANGED <<cfgEnabled, cfgProcess, ctxCancelled, runPc, runErr,
                   running, stopClosed, lastState, loopPc, tickPending,
                   nTicks, nCaptures, jobResult, jobAdded, statusPc,
                   statusOut>>
    /\ UNCHANGED <<cfgInterval, cfgQuality, tickerPeriod, now, captureTime, jobStamp,
                   recent, jobMeta>>
    /\ UNCHANGED <<qeVars, apiVars, appVars, libVars>>

\* memory.Metadata{Timestamp: cap.Timestamp.Format(time.RFC3339), ...}
metadataTimestamp(j) == RFC3339(jobStamp[j])

\* faulty variant of analyzeReturned: the error of AnalyzeScreen is ignored
analyzeReturned_IgnoreError(j, ok, result) ==
    /\ jobPc' = [jobPc EXCEPT ![j] = "add"]
    /\ wg' = wg
    /\ jobResult' = [jobResult EXCEPT ![j] = result]
    /\ jobAdded' = [jobAdded EXCEPT ![j] = memoryContent(result)]
    /\ jobMeta' = [jobMeta EXCEPT ![j] = metadataTimestamp(j)]
    /\ callLog' = [callLog EXCEPT ![j] = Append(@, "add")]

\* analyzeAndStore after AnalyzeScreen returned: on error return (deferred
\* wg.Done); else build the content and issue s.memory.Add (no context)
analyzeReturned(j, ok, result) ==
    IF ~ok
    THEN /\ jobPc' = [jobPc EXCEPT ![j] = "analyzeFailed"]
         /\ wg' = wg - 1
         /\ UNCHANGED <<jobResult, jobAdded, jobMeta, callLog>>
    ELSE /\ jobPc' = [jobPc EXCEPT ![j] = "add"]
         /\ wg' = wg
         /\ jobResult' = [jobResult EXCEPT ![j] = result]
         /\ jobAdded' = [jobAdded EXCEPT ![j] = memoryContent(result)]
         /\ jobMeta' = [jobMeta EXCEPT ![j] = metadataTimestamp(j)]
         /\ callLog' = [callLog EXCEPT ![j] = Append(@, "add")]

\* AnalyzeScreen returns: an LlmError, or a parsed AnalysisResult
JobAnalyzeReturn(j) ==
    /\ jobPc[j] = "analyze"
    /\ \/ analyzeReturned(j, FALSE, NoResult)
       \/ \E result \in Results : analyzeReturned(j, TRUE, result)
    /\ UNCHANGED <<cfgEnabled, cfgProcess, ctxCancelled, runPc, runErr,
                   running, stopClosed, lastState, loopPc, tickPending,
                   nTicks, nCaptures, statusPc, statusOut>>
    /\ UNCHANGED <<cfgInterval, cfgQuality, tickerPeriod, now, captureTime, jobStamp,
                   recent, jobContext>>
    /\ UNCHANGED <<qeVars, apiVars, appVars, libVars>>

\* Store.Add returns: on error return; else the assignment
\* s.lastState = result.Summary begins by storing the first word
JobAddReturn(j) ==
    /\ jobPc[j] = "add"
    /\ \E ok \in BOOLEAN :
          IF ok
          THEN /\ jobPc' = [jobPc EXCEPT ![j] = "write"]
               /\ lastState' = [lastState EXCEPT !.ptr = jobResult[j].summary]
               /\ wg' = wg
          ELSE /\ jobPc' = [jobPc EXCEPT ![j] = "addFailed"]
               /\ lastState' = lastState
               /\ wg' = wg - 1
    /\ UNCHANGED <<cfgEnabled, cfgProcess, ctxCancelled, runPc, runErr,
                   running, stopClosed, loopPc, tickPending, nTicks,
                   nCaptures, jobResult, jobAdded, callLog, statusPc,
                   statusOut>>
    /\ UNCHANGED envVars
    /\ UNCHANGED <<qeVars, apiVars, appVars, libVars>>

\* the assignment to s.lastState stores the second word; the job returns
JobWriteEnd(j) ==
    /\ jobPc[j] = "write"
    /\ lastState' = [lastState EXCEPT !.len = jobResult[j].summary]
    /\ jobPc' = [jobPc EXCEPT ![j] = "stored"]
    /\ wg' = wg - 1
    /\ UNCHANGED <<cfgEnabled, cfgProcess, ctxCancelled, runPc, runErr,
                   running, stopClosed, loopPc, tickPending, nTicks,
                   nCaptures, jobResult, jobAdded, callLog, statusPc,
                   statusOut>>
    /\ UNCHANGED envVars
    /\ UNCHANGED <<qeVars, apiVars, appVars, libVars>>

\* ---- Service.GetStatus, called from any goroutine ------------------------
\* builds the map: reads s.running and the first word of s.lastState
GetStatusBegin ==
    /\ statusPc = "idle"
    /\ statusPc' = "reading"
    /\ statusOut' = [running |-> running, ptr |-> lastState.ptr,
                     len |-> "<pending>"]
    /\ UNCHANGED <<cfgEnabled, cfgProcess, ctxCancelled, runPc, runErr,
                   running, stopClosed, wg, lastState, loopPc, tickPending,
                   nTicks, nCaptures, jobPc, jobResult, jobAdded, callLog>>
    /\ UNCHANGED envVars
    /\ UNCHANGED <<qeVars, apiVars, appVars, libVars>>

\* reads the second word of s.lastState and returns the map
GetStatusEnd ==
    /\ statusPc = "reading"
    /\ statusPc' = "idle"
    /\ statusOut' = [statusOut EXCEPT !.len = lastState.len]
    /\ UNCHANGED <<cfgEnabled, cfgProcess, ctxCancelled, runPc, runErr,
                   running, stopClosed, wg, lastState, loopPc, tickPending,
                   nTicks, nCaptures, jobPc, jobResult, jobAdded, callLog>>
    /\ UNCHANGED envVars
    /\ UNCHANGED <<qeVars, apiVars, appVars, libVars>>

(***************************************************************************)
(* Part II.  The quick-enhance controller.                                 *)
(***************************************************************************)

Hotkeys == 1 .. MaxHotkeys

Pastes == 1 .. MaxPastes

\* the controller before any hotkey press, with the given clipboard text
QEStart(clip, sel) ==
    /\ clipboard = clip
    /\ original = clip
    /\ selection = sel
    /\ hkPc = [h \in Hotkeys |-> "idle"]
    /\ hkSaved = [h \in Hotkeys |-> ""]
    /\ uiText = ""
    /\ pastePc = [p \in Pastes |-> "idle"]
    /\ pasteSaved = [p \in Pastes |-> ""]

\* the text PasteEnhanced is asked to paste
Enhanced == "enhanced prompt"

\* hotkeyListener: WM_HOTKEY arrives, go q.handleHotkey()
HkPress(h) ==
    /\ hkPc[h] = "idle"
    /\ \A g \in Hotkeys : g < h => hkPc[g] # "idle"
    /\ hkPc' = [hkPc EXCEPT ![h] = "pressed"]
    /\ UNCHANGED <<clipboard, selection, original, hkSaved, uiText, pastePc,
                   pasteSaved>>
    /\ UNCHANGED <<svcVars, apiVars, appVars, libVars>>

\* getSelectedText: savedClipboard := q.getClipboardText()
HkSave(h) ==
    /\ hkPc[h] = "pressed"
    /\ hkSaved' = [hkSaved EXCEPT ![h] = clipboard]
    /\ hkPc' = [hkPc EXCEPT ![h] = "saved"]
    /\ UNCHANGED <<clipboard, selection, original, uiText, pastePc,
                   pasteSaved>>
    /\ UNCHANGED <<svcVars, apiVars, appVars, libVars>>

\* getSelectedText: q.setClipboardText("")
HkClear(h) ==
    /\ hkPc[h] = "saved"
    /\ clipboard' = ""
    /\ hkPc' = [hkPc EXCEPT ![h] = "cleared"]
    /\ UNCHANGED <<selection, original, hkSaved, uiText, pastePc, pasteSaved>>
    /\ UNCHANGED <<svcVars, apiVars, appVars, libVars>>

\* getSelectedText: q.sendCtrlC(); the foreground application copies its
\* selection, if it has one, during the wait that follows
HkCopy(h) ==
    /\ hkPc[h] = "cleared"
    /\ clipboard' = IF selection # "" THEN selection ELSE clipboard
    /\ hkPc' = [hkPc EXCEPT ![h] = "copied"]
    /\ UNCHANGED <<selection, original, hkSaved, uiText, pastePc, pasteSaved>>
    /\ UNCHANGED <<svcVars, apiVars, appVars, libVars>>

\* getSelectedText: text := q.getClipboardText(); the restore goroutine is
\* started and handleHotkey hands text to the callback set by the UI
HkRead(h) ==
    /\ hkPc[h] = "copied"
    /\ uiText' = clipboard
    /\ hkPc' = [hkPc EXCEPT ![h] = "restoring"]
    /\ UNCHANGED <<clipboard, selection, original, hkSaved, pastePc,
                   pasteSaved>>
    /\ UNCHANGED <<svcVars, apiVars, appVars, libVars>>

\* getSelectedText's goroutine, after its sleep: setClipboardText(saved)
HkRestore(h) ==
    /\ hkPc[h] = "restoring"
    /\ clipboard' = hkSaved[h]
    /\ hkPc' = [hkPc EXCEPT ![h] = "done"]
    /\ UNCHANGED <<selection, original, hkSaved, uiText, pastePc, pasteSaved>>
    /\ UNCHANGED <<svcVars, apiVars, appVars, libVars>>

\* PasteEnhanced, called by the UI once a hotkey press has delivered its
\* text: savedClipboard := q.getClipboardText()
PasteSave(p) ==
    /\ pastePc[p] = "idle"
    /\ \A r \in Pastes : r < p => pastePc[r] # "idle"
    /\ \E h \in Hotkeys : hkPc[h] \in {"restoring", "done"}
    /\ pasteSaved' = [pasteSaved EXCEPT ![p] = clipboard]
    /\ pastePc' = [pastePc EXCEPT ![p] = "saved"]
    /\ UNCHANGED <<clipboard, selection, original, hkPc, hkSaved, uiText>>
    /\ UNCHANGED <<svcVars, apiVars, appVars, libVars>>

\* PasteEnhanced: q.setClipboardText(text)
PasteSet(p) ==
    /\ pastePc[p] = "saved"
    /\ clipboard' = Enhanced
    /\ pastePc' = [pastePc EXCEPT ![p] = "set"]
    /\ UNCHANGED <<selection, original, hkPc, hkSaved, uiText, pasteSaved>>
    /\ UNCHANGED <<svcVars, apiVars, appVars, libVars>>

\* PasteEnhanced: q.sendCtrlV(); the restore goroutine is started
PasteCtrlV(p) ==
    /\ pastePc[p] = "set"
    /\ pastePc' = [pastePc EXCEPT ![p] = "restoring"]
    /\ UNCHANGED <<clipboard, selection, original, hkPc, hkSaved, uiText,
                   pasteSaved>>
    /\ UNCHANGED <<svcVars, apiVars, appVars, libVars>>

\* PasteEnhanced's goroutine, after its sleep: setClipboardText(saved)
PasteRestore(p) ==
    /\ pastePc[p] = "restoring"
    /\ clipboard' = pasteSaved[p]
    /\ pastePc' = [pastePc EXCEPT ![p] = "done"]
    /\ UNCHANGED <<selection, original, hkPc, hkSaved, uiText, pasteSaved>>
    /\ UNCHANGED <<svcVars, apiVars, appVars, libVars>>

(***************************************************************************)
(* Part III.  The prompt enhancer (package enhancer) and the extension     *)
(* HTTP API (server.go, and the handler of the Swift application).         *)
(***************************************************************************)

\* the concurrent callers: HTTP requests being served and hotkey-path calls
Calls == 1 .. MaxCalls

\* relevance scores of search hits, in hundredths (85 stands for 0.85)
Scores == {80, 85, 90}

\* Metadata.Context of a stored memory ("unknown" is what analysis stores)
Contexts == {"", "unknown"}

\* Memory.Content of the i-th hit of a search
ContentOf(i) == "memory " \o ToString(i)

\* a list of hits a backend can answer a search with: the i-th has score
\* scores[i], and every hit carries the same Metadata.Context
HitList(scores, context) ==
    [i \in 1 .. Len(scores) |->
        [content |-> ContentOf(i), context |-> context, score |-> scores[i]]]

\* prompts handed to the enhancer
Prompts == {"", "fix the login bug"}

\* a Go slice: nil, or a (possibly empty) list of elements
NilSlice == [isNil |-> TRUE, elems |-> <<>>]

\* the literal []string{}
EmptySlice == [isNil |-> FALSE, elems |-> <<>>]

\* "var s []T" followed by one append per element of seq
appended(seq) == [isNil |-> seq = <<>>, elems |-> seq]

len(s) == Len(s.elems)

\* Store.Search on a backend that answers with hits: one SearchResult is
\* appended per hit
Search(hits) == appended(hits)

\* the error text of a failed Store.Search
StoreError == "unexpected status: 500"

\* ---- Enhance ------------------------------------------------------------

\* result.Score > 0.85
HighRelevance_AtLeast(score) == score >= 85

HighRelevance(score) == score > 85

highRelevanceMemories(results) ==
    LET hs == SelectSeq(results, LAMBDA r : HighRelevance(r.score))
    IN  [i \in 1 .. Len(hs) |-> hs[i].content]

contextualMemories(results) ==
    LET cs == SelectSeq(results, LAMBDA r : ~HighRelevance(r.score))
    IN  [i \in 1 .. Len(cs) |-> cs[i].content]

\* the formatted memory content "with metadata"
memoryContents(results) ==
    [i \in 1 .. Len(results) |->
        IF results[i].context # ""
        THEN "[" \o results[i].context \o "] " \o results[i].content
        ELSE results[i].content]

memoriesUsed_Capped(results) ==
    [i \in 1 .. (IF Len(results) < 3 THEN Len(results) ELSE 3) |-> results[i].content]

memoriesUsed(results) == [i \in 1 .. Len(results) |-> results[i].content]

\* faulty variant of determineEnhancementType: a page context forces "detailed"
determineEnhancementType_ByPage(highRelevance, contextual, pageContext) ==
    IF pageContext # "" THEN "detailed"
    ELSE IF highRelevance >= 2 THEN "contextual"
    ELSE IF highRelevance = 1 /\ contextual >= 2 THEN "detailed"
    ELSE IF highRelevance = 0 /\ contextual > 0 THEN "minimal"
    ELSE "contextual"

determineEnhancementType(highRelevance, contextual, pageContext) ==
    IF highRelevance >= 2 THEN "contextual"
    ELSE IF highRelevance = 1 /\ contextual >= 2 THEN "detailed"
    ELSE IF highRelevance = 0 /\ contextual > 0 THEN "minimal"
    ELSE "contextual"

\* one write to the strings.Builder: a literal, or fmt.Sprintf("- %s\n", m)
Lit(s) == [fmt |-> "%s", arg |-> s]

Item(memory) == [fmt |-> "- %s\n", arg |-> memory]

Sprintf(w) == IF w.fmt = "%s" THEN w.arg ELSE "- " \o w.arg \o "\n"

\* builder.String(): the writes, concatenated
RECURSIVE String(_)
String(builder) ==
    IF builder = <<>> THEN ""
    ELSE Sprintf(Head(builder)) \o String(Tail(builder))

\* "for i, memory := range memories { write; if i >= breakAt { break } }"
WriteItems_NoBreak(memories, breakAt) ==
    [i \in 1 .. Len(memories) |-> Item(memories[i])]

WriteItems(memories, breakAt) ==
    [i \in 1 .. (IF Len(memories) < breakAt + 1 THEN Len(memories) ELSE breakAt + 1)
       |-> Item(memories[i])]

\* case "minimal" of buildEnhancedPrompt
minimalNote_Empty(allMemories) == <<>>

minimalNote(allMemories) ==
    IF Len(allMemories) > 0
    THEN <<Lit("\n\n[Note: Consider previous context: "), Lit(allMemories[1])>>
           \o (IF Len(allMemories) > 1
               THEN <<Lit(" and related activities")>> ELSE <<>>)
           \o <<Lit("]")>>
    ELSE <<>>

\* the writes buildEnhancedPrompt makes to its builder
buildEnhancedPrompt(originalPrompt, high, ctx, allMemories, enhancementType) ==
    <<Lit(originalPrompt)>> \o
    CASE enhancementType = "contextual" ->
           <<Lit("\n\n[Context from previous sessions]\n"),
             Lit("Based on my previous activities and context:\n")>>
           \o WriteItems(high, 2)
           \o (IF Len(ctx) > 0
               THEN <<Lit("\nAdditional context:\n")>> \o WriteItems(ctx, 1)
               ELSE <<>>)
      [] enhancementType = "detailed" ->
           <<Lit("\n\n[Relevant background]\n")>> \o WriteItems(allMemories, 3)
      [] enhancementType = "minimal" -> minimalNote(allMemories)
      [] OTHER -> <<>>

\* the nil *EnhancementResult
NoEnhancement ==
    [OriginalPrompt |-> "", EnhancedPrompt |-> "", MemoriesUsed |-> NilSlice,
     EnhancementType |-> ""]

\* Enhance when the search found nothing
noMemories_NilSlice(prompt) ==
    [OriginalPrompt |-> prompt, EnhancedPrompt |-> prompt,
     MemoriesUsed |-> NilSlice, EnhancementType |-> "none"]

noMemories(prompt) ==
    [OriginalPrompt |-> prompt, EnhancedPrompt |-> prompt,
     MemoriesUsed |-> EmptySlice, EnhancementType |-> "none"]

\* Enhance on a non-empty result list, up to the stats update
enhanced(prompt, pageContext, results) ==
    LET high == highRelevanceMemories(results)
        ctx  == contextualMemories(results)
        enhancementType == determineEnhancementType(Len(high), Len(ctx), pageContext)
    IN  [OriginalPrompt |-> prompt,
         EnhancedPrompt |->
             String(buildEnhancedPrompt(prompt, high, ctx,
                                        memoryContents(results), enhancementType)),
         MemoriesUsed |-> appended(memoriesUsed(results)),
         EnhancementType |-> enhancementType]

\* e.statsMu.Lock() goes through only while nobody holds the mutex
statsMuFree_Ignored == TRUE

statsMuFree == statsMu = 0

\* GetStats, under the read lock
GetStats ==
    [enhancements_made |-> enhancementsMade, last_enhancement |-> lastEnhancement]

\* ---- requests and responses ---------------------------------------------

\* an Origin header value scheme://host; NoOrigin is the absent header
NoOrigin == [scheme |-> "", host |-> ""]

Origins ==
    {NoOrigin,
     [scheme |-> "chrome-extension", host |-> "abcdefghijklmnop"],
     [scheme |-> "http", host |-> "localhost:3000"],
     [scheme |-> "https", host |-> "evil.example"]}

OriginString(o) == IF o.scheme = "" THEN "" ELSE o.scheme \o "://" \o o.host

Methods == {"GET", "POST", "OPTIONS"}

\* the registered paths and one that is not registered
Routes == {"/health", "/api/enhance", "/api/memories/search", "/api/status",
           "/favicon.ico"}

\* a request body: not decodable as JSON, or a handleEnhanceRequest
NoBody == [json |-> FALSE, prompt |-> "", context |-> "", max_memories |-> 0]

Body(prompt, context, maxMemories) ==
    [json |-> TRUE, prompt |-> prompt, context |-> context,
     max_memories |-> maxMemories]

Req(server, method, route, origin, body, q, limit) ==
    [server |-> server, method |-> method, route |-> route, origin |-> origin,
     body |-> body, q |-> q, limit |-> limit]

\* a caller that makes no call
NoCall == Req("none", "", "", NoOrigin, NoBody, "", "")

\* a call of QuickEnhance.EnhancePrompt by the UI after a hotkey press
HotkeyCall(prompt) == Req("hotkey", "", "", NoOrigin, Body(prompt, "", 0), "", "")

\* any method on any path from any origin, without a body or a query, sent
\* to the Go server or to the Swift one
BareRequests ==
    {Req(s, m, r, o, NoBody, "", "") :
        s \in {"go", "swift"}, m \in Methods, r \in Routes, o \in Origins}

EnhanceRequests ==
    {Req("go", "POST", "/api/enhance", o, b, "", "") :
        o \in Origins,
        b \in {Body("", "", 0), Body("fix the login bug", "", 0),
               Body("fix the login bug", "chatgpt", 3)}}

SearchRequests ==
    {Req("go", "GET", "/api/memories/search", o, NoBody, "login", l) :
        o \in Origins, l \in {"", "3", "x"}}

Requests ==
    BareRequests \cup EnhanceRequests \cup SearchRequests
       \cup {HotkeyCall(p) : p \in Prompts}

\* response headers are name/value pairs; Header().Set replaces by name
SetHeader(headers, name, value) ==
    {h \in headers : h[1] # name} \cup {<<name, value>>}

NoResponse == [status |-> 0, headers |-> {}, body |-> [kind |-> "none"]]

\* http.Error(w, msg, code)
httpError(w, msg, code) ==
    [status |-> code,
     headers |-> SetHeader(SetHeader(w.headers, "Content-Type",
                                     "text/plain; charset=utf-8"),
                           "X-Content-Type-Options", "nosniff"),
     body |-> [kind |-> "error", text |-> msg]]

writeJSON(w, data) ==
    [status |-> 200,
     headers |-> SetHeader(w.headers, "Content-Type", "application/json"),
     body |-> data]

\* no search issued yet
NoSearch == [called |-> FALSE, query |-> "", limit |-> 0, ok |-> FALSE]

\* Enhance has not returned
NotReturned == [returned |-> FALSE, err |-> "", result |-> NoEnhancement]

\* the state of the enhancer, the server and the callers before any call
ApiStart(hits, reqs) ==
    /\ store = hits
    /\ callReq = reqs
    /\ callPc = [c \in Calls |-> "idle"]
    /\ callSearch = [c \in Calls |-> NoSearch]
    /\ callReg = [c \in Calls |-> 0]
    /\ callResult = [c \in Calls |-> NotReturned]
    /\ callResp = [c \in Calls |-> NoResponse]
    /\ statsMu = 0
    /\ enhancementsMade = 0
    /\ lastEnhancement = 0

\* ---- the Go server --------------------------------------------------------

\* the headers corsMiddleware sets on every response
corsHeaders(headers) ==
    SetHeader(SetHeader(SetHeader(headers,
        "Access-Control-Allow-Origin", "*"),
        "Access-Control-Allow-Methods", "GET, POST, OPTIONS"),
        "Access-Control-Allow-Headers", "Content-Type, Authorization")

corsMiddleware(c) ==
    /\ callPc[c] = "idle"
    /\ callReq[c].server = "go"
    /\ LET w == [callResp[c] EXCEPT !.headers = corsHeaders(@)]
       IN  IF callReq[c].method = "OPTIONS"
           THEN /\ callResp' = [callResp EXCEPT ![c] = [w EXCEPT !.status = 200]]
                /\ callPc' = [callPc EXCEPT ![c] = "done"]
           ELSE /\ callResp' = [callResp EXCEPT ![c] = w]
                /\ callPc' = [callPc EXCEPT ![c] = "mux"]
    /\ UNCHANGED <<store, callReq, callSearch, callReg, callResult, statsMu,
                   enhancementsMade, lastEnhancement>>
    /\ UNCHANGED <<svcVars, qeVars, appVars, libVars>>

\* the ServeMux answers a path no handler is registered for
NotFound(c) ==
    /\ callPc[c] = "mux"
    /\ callReq[c].route \notin {"/health", "/api/enhance",
                                "/api/memories/search", "/api/status"}
    /\ callResp' = [callResp EXCEPT
                      ![c] = httpError(@, "404 page not found", 404)]
    /\ callPc' = [callPc EXCEPT ![c] = "done"]
    /\ UNCHANGED <<store, callReq, callSearch, callReg, callResult, statsMu,
                   enhancementsMade, lastEnhancement>>
    /\ UNCHANGED <<svcVars, qeVars, appVars, libVars>>

handleHealth(c) ==
    /\ callPc[c] = "mux"
    /\ callReq[c].route = "/health"
    /\ callResp' = [callResp EXCEPT ![c] =
          IF callReq[c].method # "GET"
          THEN httpError(@, "Method not allowed", 405)
          ELSE writeJSON(@, [kind |-> "health", status |-> "ok",
                             service |-> "aurabot-extension-api"])]
    /\ callPc' = [callPc EXCEPT ![c] = "done"]
    /\ UNCHANGED <<store, callReq, callSearch, callReg, callResult, statsMu,
                   enhancementsMade, lastEnhancement>>
    /\ UNCHANGED <<svcVars, qeVars, appVars, libVars>>

\* req.Prompt == ""
promptMissing_Never(body) == FALSE

promptMissing(body) == body.prompt = ""

\* the checks of handleEnhance before it calls the enhancer: the status and
\* message of the rejection, or status 0 when the request passes
enhanceRejection(req) ==
    IF req.method # "POST"
    THEN [status |-> 405, msg |-> "Method not allowed"]
    ELSE IF ~req.body.json
    THEN [status |-> 400, msg |-> "Invalid JSON: EOF"]
    ELSE IF promptMissing(req.body)
    THEN [status |-> 400, msg |-> "Prompt is required"]
    ELSE [status |-> 0, msg |-> ""]

\* the arguments Enhance is called with: by handleEnhance, which defaults
\* max_memories, or by QuickEnhance.EnhancePrompt
enhanceArgs(req) ==
    IF req.server = "hotkey"
    THEN [prompt |-> req.body.prompt, pageContext |-> "", maxMemories |-> 5]
    ELSE [prompt |-> req.body.prompt, pageContext |-> req.body.context,
          maxMemories |-> IF req.body.max_memories <= 0 THEN 5
                          ELSE req.body.max_memories]

\* handleEnhance up to its call of Enhance
handleEnhance(c) ==
    /\ callPc[c] = "mux"
    /\ callReq[c].route = "/api/enhance"
    /\ LET no == enhanceRejection(callReq[c])
       IN  IF no.status # 0
           THEN /\ callResp' = [callResp EXCEPT
                                  ![c] = httpError(@, no.msg, no.status)]
                /\ callPc' = [callPc EXCEPT ![c] = "done"]
           ELSE /\ callResp' = callResp
                /\ callPc' = [callPc EXCEPT ![c] = "enhance"]
    /\ UNCHANGED <<store, callReq, callSearch, callReg, callResult, statsMu,
                   enhancementsMade, lastEnhancement>>
    /\ UNCHANGED <<svcVars, qeVars, appVars, libVars>>

\* what handleEnhance answers once Enhance has returned res; the hotkey path
\* has no HTTP response
enhanceReply(req, w, res) ==
    IF req.server # "go" THEN w
    ELSE IF res.err # ""
    THEN httpError(w, "Enhancement failed: " \o res.err, 500)
    ELSE writeJSON(w, [kind |-> "enhance",
                       original_prompt |-> req.body.prompt,
                       enhanced_prompt |-> res.result.EnhancedPrompt,
                       memories_used |-> res.result.MemoriesUsed,
                       memory_count |-> len(res.result.MemoriesUsed),
                       enhancement_type |-> res.result.EnhancementType])

\* strconv.Atoi on the limit parameters of SearchRequests
Atoi(s) == IF s = "3" THEN [ok |-> TRUE, n |-> 3] ELSE [ok |-> FALSE, n |-> 0]

\* the limit handleMemorySearch passes on
searchLimit(limitStr) ==
    IF limitStr # "" /\ Atoi(limitStr).ok /\ Atoi(limitStr).n > 0
    THEN Atoi(limitStr).n ELSE 5

\* SearchMemories: one MemoryInfo per search result
SearchMemories(results) ==
    appended([i \in 1 .. len(results) |->
                [content |-> results.elems[i].content,
                 context |-> results.elems[i].context,
                 score |-> results.elems[i].score]])

\* handleMemorySearch, with its call of the memory store
handleMemorySearch(c) ==
    /\ callPc[c] = "mux"
    /\ callReq[c].route = "/api/memories/search"
    /\ \E ok \in BOOLEAN :
          LET req == callReq[c]
              memories == SearchMemories(Search(store))
          IN  IF req.method # "GET"
              THEN /\ callResp' = [callResp EXCEPT
                                     ![c] = httpError(@, "Method not allowed", 405)]
                   /\ callSearch' = callSearch
              ELSE IF req.q = ""
              THEN /\ callResp' = [callResp EXCEPT ![c] =
                          httpError(@, "Query parameter 'q' is required", 400)]
                   /\ callSearch' = callSearch
              ELSE /\ callSearch' = [callSearch EXCEPT ![c] =
                          [called |-> TRUE, query |-> req.q,
                           limit |-> searchLimit(req.limit), ok |-> ok]]
                   /\ callResp' = [callResp EXCEPT ![c] =
                          IF ~ok
                          THEN httpError(@, "Search failed: " \o StoreError, 500)
                          ELSE writeJSON(@, [kind |-> "search", query |-> req.q,
                                             memories |-> memories,
                                             count |-> len(memories)])]
    /\ callPc' = [callPc EXCEPT ![c] = "done"]
    /\ UNCHANGED <<store, callReq, callReg, callResult, statsMu,
                   enhancementsMade, lastEnhancement>>
    /\ UNCHANGED <<svcVars, qeVars, appVars, libVars>>

\* handleStatus; GetStats waits while a writer holds statsMu
handleStatus(c) ==
    /\ callPc[c] = "mux"
    /\ callReq[c].route = "/api/status"
    /\ callReq[c].method = "GET" => statsMu = 0
    /\ callResp' = [callResp EXCEPT ![c] =
          IF callReq[c].method # "GET"
          THEN httpError(@, "Method not allowed", 405)
          ELSE writeJSON(@, [kind |-> "status", status |-> "running",
                             stats |-> GetStats])]
    /\ callPc' = [callPc EXCEPT ![c] = "done"]
    /\ UNCHANGED <<store, callReq, callSearch, callReg, callResult, statsMu,
                   enhancementsMade, lastEnhancement>>
    /\ UNCHANGED <<svcVars, qeVars, appVars, libVars>>

\* ---- the enhancer, called by handleEnhance or by the hotkey path ----------

\* QuickEnhance.EnhancePrompt: q.enhancer.Enhance(ctx, prompt, "", 5)
EnhancePrompt(c) ==
    /\ callPc[c] = "idle"
    /\ callReq[c].server = "hotkey"
    /\ callPc' = [callPc EXCEPT ![c] = "enhance"]
    /\ UNCHANGED <<store, callReq, callSearch, callReg, callResult, callResp,
                   statsMu, enhancementsMade, lastEnhancement>>
    /\ UNCHANGED <<svcVars, qeVars, appVars, libVars>>

\* Enhance from the search to the point where it takes the stats lock; it
\* returns at once when the search fails or finds nothing
EnhanceSearch(c) ==
    /\ callPc[c] = "enhance"
    /\ \E ok \in BOOLEAN :
          LET args == enhanceArgs(callReq[c])
              results == Search(store)
              res == IF ~ok
                     THEN [returned |-> TRUE,
                           err |-> "memory search failed: " \o StoreError,
                           result |-> NoEnhancement]
                     ELSE IF len(results) = 0
                     THEN [returned |-> TRUE, err |-> "",
                           result |-> noMemories(args.prompt)]
                     ELSE [returned |-> FALSE, err |-> "",
                           result |-> enhanced(args.prompt, args.pageContext,
                                               results.elems)]
          IN  /\ callSearch' = [callSearch EXCEPT ![c] =
                     [called |-> TRUE, query |-> args.prompt,
                      limit |-> args.maxMemories, ok |-> ok]]
              /\ callResult' = [callResult EXCEPT ![c] = res]
              /\ callPc' = [callPc EXCEPT
                              ![c] = IF res.returned THEN "done" ELSE "lock"]
              /\ callResp' = [callResp EXCEPT ![c] =
                     IF res.returned THEN enhanceReply(callReq[c], @, res) ELSE @]
    /\ UNCHANGED <<store, callReq, callReg, statsMu, enhancementsMade,
                   lastEnhancement>>
    /\ UNCHANGED <<svcVars, qeVars, appVars, libVars>>

\* e.statsMu.Lock() and the load of e.enhancementsMade++
StatsLock(c) ==
    /\ callPc[c] = "lock"
    /\ statsMuFree
    /\ statsMu' = c
    /\ callReg' = [callReg EXCEPT ![c] = enhancementsMade]
    /\ callPc' = [callPc EXCEPT ![c] = "store"]
    /\ UNCHANGED <<store, callReq, callSearch, callResult, callResp,
                   enhancementsMade, lastEnhancement>>
    /\ UNCHANGED <<svcVars, qeVars, appVars, libVars>>

\* the store of e.enhancementsMade++, e.lastEnhancement = time.Now() (the
\* time of call c), e.statsMu.Unlock(), and the return of the result
StatsStore(c) ==
    /\ callPc[c] = "store"
    /\ enhancementsMade' = callReg[c] + 1
    /\ lastEnhancement' = c
    /\ statsMu' = 0
    /\ LET res == [callResult[c] EXCEPT !.returned = TRUE]
       IN  /\ callResult' = [callResult EXCEPT ![c] = res]
           /\ callResp' = [callResp EXCEPT
                              ![c] = enhanceReply(callReq[c], @, res)]
    /\ callPc' = [callPc EXCEPT ![c] = "done"]
    /\ UNCHANGED <<store, callReq, callSearch, callReg>>
    /\ UNCHANGED <<svcVars, qeVars, appVars, libVars>>

\* ---- the Swift server -----------------------------------------------------

\* HTTPHandler.allowedOrigins; an entry without host ends with "://"
allowedOrigins ==
    <<[scheme |-> "http", host |-> "localhost:3000"],
      [scheme |-> "http", host |-> "localhost:8080"],
      [scheme |-> "http", host |-> "localhost:7345"],
      [scheme |-> "chrome-extension", host |-> ""]>>

isAllowedOrigin(origin) ==
    \/ OriginString(origin) = ""
    \/ \E i \in DOMAIN allowedOrigins :
          \/ allowedOrigins[i].host = "" /\ origin.scheme = allowedOrigins[i].scheme
          \/ origin = allowedOrigins[i]

\* HTTPHandler.handleRequest: headers, status and body in one step
handleRequest(c) ==
    /\ callPc[c] = "idle"
    /\ callReq[c].server = "swift"
    /\ LET req == callReq[c]
           corsOrigin == IF OriginString(req.origin) = ""
                         THEN "http://localhost:3000"
                         ELSE OriginString(req.origin)
           cors == IF isAllowedOrigin(req.origin)
                   THEN {<<"Access-Control-Allow-Origin", corsOrigin>>,
                         <<"Access-Control-Allow-Methods", "GET, POST, OPTIONS">>,
                         <<"Access-Control-Allow-Headers", "Content-Type, Authorization">>,
                         <<"Access-Control-Allow-Credentials", "true">>}
                   ELSE {}
           found == <<req.method, req.route>> \in
                       {<<"GET", "/health">>, <<"POST", "/api/enhance">>,
                        <<"GET", "/api/memories/search">>}
       IN  callResp' = [callResp EXCEPT ![c] =
              [status |-> IF found THEN 200 ELSE 404,
               headers |-> {<<"Content-Type", "application/json">>} \cup cors,
               body |-> IF found THEN [kind |-> "canned", route |-> req.route]
                        ELSE [kind |-> "error", text |-> "Not found"]]]
    /\ callPc' = [callPc EXCEPT ![c] = "done"]
    /\ UNCHANGED <<store, callReq, callSearch, callReg, callResult, statsMu,
                   enhancementsMade, lastEnhancement>>
    /\ UNCHANGED <<svcVars, qeVars, appVars, libVars>>

(***************************************************************************)
(* Part IV.  The desktop host (cmd/app/app.go): Startup and Shutdown, the  *)
(* listener of the extension server (server.New, Server.Start) and the     *)
(* hotkey listener of the quick-enhance controller (registerHotkey).       *)
(***************************************************************************)

\* values of config.Extension.Port
Ports == {-1, 0, 7345, 8080}

\* server.New: if port <= 0 { port = 7345 }
New(port) == IF port <= 0 THEN 7345 ELSE port

NoListener == [host |-> "<none>", port |-> 0]

\* Server.Start: Addr: fmt.Sprintf(":%d", s.port), an address without a host
Addr(port) == [host |-> "", port |-> port]

\* the addresses of the machine's interfaces
Loopback == {"127.0.0.1", "::1"}

Interfaces == Loopback \cup {"192.168.1.20"}

\* net.Listen("tcp", addr) of ListenAndServe: the interface addresses on which
\* a listener bound to addr accepts connections; an empty host is every
\* interface
BoundTo(addr) ==
    IF addr = NoListener THEN {}
    ELSE IF addr.host = "" THEN Interfaces
    ELSE IF addr.host = "localhost" THEN Loopback
    ELSE {addr.host} \cap Interfaces

\* the key combinations of registerHotkey
CtrlAltE == "Ctrl+Alt+E"

WinShiftE == "Win+Shift+E"

NoHotkey == "<none>"

\* the capture settings of the configuration in memory
Config ==
    [intervalSeconds |-> cfgInterval, quality |-> cfgQuality,
     enabled |-> cfgEnabled]

\* what an operation of App returns: a map as a set of <<key, value>>, a
\* text, an error ("" for nil) and a boolean
Out(op, map, text, err, ok) ==
    [op |-> op, map |-> map, text |-> text, err |-> err, ok |-> ok]

NoOut == Out("<none>", {}, "", "", FALSE)

\* the host before Startup, for a given configuration; config.yaml holds the
\* capture settings Load will read
AppStart(port, extension) ==
    /\ appPc = "created"
    /\ cfgPort = port
    /\ cfgExtension = extension
    /\ httpAddr = NoListener
    /\ httpServer = "none"
    /\ quickEnhance = FALSE
    /\ qeRunning = FALSE
    /\ qeCancelled = FALSE
    /\ listenerPc = "none"
    /\ hotkey = NoHotkey
    /\ attempts = <<>>
    /\ appLog = <<>>
    /\ configFile = Config
    /\ appOut = NoOut

\* the lines Startup prints while it starts the server and the controller
startupLog(extension, port, overlayOk) ==
    (IF extension
     THEN <<"Extension server starting on port " \o ToString(port)>>
     ELSE <<>>)
    \o (IF overlayOk THEN <<>> ELSE <<"Failed to start quick enhance">>)

\* App.Startup: config.Load and service.New (on error print and return);
\* server.New and Start if Extension.Enabled; quickenhance.New and Start
\* (running = true, then the overlay, then go hotkeyListener); go svc.Run
Startup ==
    /\ appPc = "created"
    /\ appPc' = "started"
    /\ \E loaded \in BOOLEAN, overlayOk \in BOOLEAN :
          IF ~loaded
          THEN /\ appLog' = Append(appLog, "Failed to load config")
               /\ UNCHANGED <<httpAddr, httpServer, quickEnhance, qeRunning,
                              listenerPc, runPc>>
          ELSE /\ httpAddr' = IF cfgExtension THEN Addr(New(cfgPort))
                              ELSE NoListener
               /\ httpServer' = IF cfgExtension THEN "starting" ELSE "none"
               /\ quickEnhance' = TRUE
               /\ qeRunning' = TRUE
               /\ listenerPc' = IF overlayOk THEN "register" ELSE "none"
               /\ appLog' = appLog
                            \o startupLog(cfgExtension, New(cfgPort), overlayOk)
               /\ runPc' = "idle"
    /\ UNCHANGED <<cfgPort, cfgExtension, qeCancelled, hotkey, attempts>>
    /\ UNCHANGED <<cfgEnabled, cfgProcess, ctxCancelled, runErr, running,
                   stopClosed, wg, lastState, loopPc, tickPending, nTicks,
                   nCaptures, jobPc, jobResult, jobAdded, callLog, statusPc,
                   statusOut>>
    /\ UNCHANGED envVars
    /\ UNCHANGED <<configFile, appOut>>
    /\ UNCHANGED <<qeVars, apiVars, libVars>>

\* the goroutine of Server.Start: httpServer.ListenAndServe binds the
\* address, or fails and the error is logged
ListenAndServe ==
    /\ httpServer = "starting"
    /\ \E bound \in BOOLEAN :
          IF bound
          THEN httpServer' = "listening" /\ appLog' = appLog
          ELSE /\ httpServer' = "failed"
               /\ appLog' = Append(appLog, "Extension server error")
    /\ UNCHANGED <<appPc, cfgPort, cfgExtension, httpAddr, quickEnhance,
                   qeRunning, qeCancelled, listenerPc, hotkey, attempts>>
    /\ UNCHANGED <<configFile, appOut>>
    /\ UNCHANGED <<svcVars, qeVars, apiVars, libVars>>

\* hotkeyListener, registerHotkey: RegisterHotKey with Ctrl+Alt+E
RegisterPrimary ==
    /\ listenerPc = "register"
    /\ attempts' = Append(attempts, CtrlAltE)
    /\ \E ret \in BOOLEAN :
          IF ret
          THEN hotkey' = CtrlAltE /\ listenerPc' = "loop"
          ELSE hotkey' = hotkey /\ listenerPc' = "fallback"
    /\ UNCHANGED <<appPc, cfgPort, cfgExtension, httpAddr, httpServer,
                   quickEnhance, qeRunning, qeCancelled, appLog>>
    /\ UNCHANGED <<configFile, appOut>>
    /\ UNCHANGED <<svcVars, qeVars, apiVars, libVars>>

\* registerHotkey after ret == 0: RegisterHotKey with Win+Shift+E; if that
\* fails too registerHotkey returns false and hotkeyListener returns
RegisterFallback ==
    /\ listenerPc = "fallback"
    /\ attempts' = Append(attempts, WinShiftE)
    /\ \E ret \in BOOLEAN :
          IF ret
          THEN hotkey' = WinShiftE /\ listenerPc' = "loop"
          ELSE hotkey' = hotkey /\ listenerPc' = "failed"
    /\ UNCHANGED <<appPc, cfgPort, cfgExtension, httpAddr, httpServer,
                   quickEnhance, qeRunning, qeCancelled, appLog>>
    /\ UNCHANGED <<configFile, appOut>>
    /\ UNCHANGED <<svcVars, qeVars, apiVars, libVars>>

\* hotkeyListener, message loop: case <-q.ctx.Done(): return; the deferred
\* unregisterHotkey runs
ListenerCtxDone ==
    /\ listenerPc = "loop"
    /\ qeCancelled
    /\ listenerPc' = "stopped"
    /\ hotkey' = NoHotkey
    /\ UNCHANGED <<appPc, cfgPort, cfgExtension, httpAddr, httpServer,
                   quickEnhance, qeRunning, qeCancelled, attempts, appLog>>
    /\ UNCHANGED <<configFile, appOut>>
    /\ UNCHANGED <<svcVars, qeVars, apiVars, libVars>>

\* App.Shutdown: quickEnhance.Stop() (cancel, running = false) and
\* apiServer.Stop(shutdownCtx) when they were created; nothing else (and
\* nothing once a panic has ended the process)
Shutdown ==
    /\ appPc = "started"
    /\ ~Crashed
    /\ appPc' = "shutdown"
    /\ IF quickEnhance
       THEN qeCancelled' = TRUE /\ qeRunning' = FALSE
       ELSE qeCancelled' = qeCancelled /\ qeRunning' = qeRunning
    /\ httpServer' = IF httpServer \in {"starting", "listening"}
                     THEN "closed" ELSE httpServer
    /\ UNCHANGED <<cfgPort, cfgExtension, httpAddr, quickEnhance, listenerPc,
                   hotkey, attempts, appLog>>
    /\ UNCHANGED <<configFile, appOut>>
    /\ UNCHANGED <<svcVars, qeVars, apiVars, libVars>>

(***************************************************************************)
(* Part V.  The backend clients: Store.Search and Store.Add of the two     *)
(* memory stores (mem0: the message dialect, supermemory: the content      *)
(* dialect), parseResponse of the two vision clients, and the chat client  *)
(* of NewClient and GenerateResponse.                                      *)
(***************************************************************************)

NoLibCall == [fn |-> "<none>"]

NotCalled == [status |-> "<not called>"]

\* a client before a call whose arguments are given
LibStart(call) ==
    /\ libCall = call
    /\ libRet = NotCalled

\* ---- Store.Search --------------------------------------------------------

\* the result objects of a search response: the text is under "memory"
BackendHits(scores) ==
    [i \in 1 .. Len(scores) |->
        [id |-> "m" \o ToString(i), memory |-> ContentOf(i),
         score |-> scores[i]]]

\* what the backend can answer a search with: a status, and a body that is a
\* {"results": [...]} envelope or a top-level list of result objects
SearchResponses ==
    {[status |-> st, shape |-> sh, results |-> BackendHits(scores)] :
        st \in {200}, sh \in {"envelope", "list"},
        scores \in UNION {[1 .. k -> Scores] : k \in 0 .. MaxResults}}
    \cup {[status |-> 500, shape |-> "envelope", results |-> <<>>]}

\* values of the limit argument
Limits == {-1, 0, 1, 3}

\* Store.Search: if limit <= 0 { limit = 10 }; the payload carries query and
\* limit
searchPayload(query, limit) ==
    [query |-> query, limit |-> IF limit <= 0 THEN 10 ELSE limit]

\* json decoding of a body into struct{ Results []struct{...} `json:"results"` }:
\* a JSON array cannot be decoded into a struct
decodeResults(resp) ==
    IF resp.shape = "envelope"
    THEN [ok |-> TRUE, results |-> resp.results]
    ELSE [ok |-> FALSE, results |-> <<>>]

\* the SearchResult built from a decoded result object
SearchResult(r) ==
    [id |-> r.id, content |-> r.memory, context |-> "unknown",
     score |-> r.score]

\* Store.Search after httpClient.Do returned resp
StoreSearch(query, limit, resp) ==
    IF resp.status # 200
    THEN [err |-> "unexpected status: " \o ToString(resp.status),
          sent |-> searchPayload(query, limit), results |-> NilSlice]
    ELSE IF ~decodeResults(resp).ok
    THEN [err |-> "decoding response",
          sent |-> searchPayload(query, limit), results |-> NilSlice]
    ELSE [err |-> "",
          sent |-> searchPayload(query, limit),
          results |-> appended([i \in 1 .. Len(decodeResults(resp).results) |->
                                  SearchResult(decodeResults(resp).results[i])])]

SearchInputs ==
    {[fn |-> "Search", query |-> "login", limit |-> l, resp |-> r] :
        l \in Limits, r \in SearchResponses}

SearchCall ==
    /\ libCall.fn = "Search"
    /\ libRet = NotCalled
    /\ libRet' = StoreSearch(libCall.query, libCall.limit, libCall.resp)
    /\ UNCHANGED libCall
    /\ UNCHANGED <<svcVars, qeVars, apiVars, appVars>>

\* ---- Store.Add -----------------------------------------------------------

\* what the backend can answer an add with: a status and a body that is, or
\* is not, a JSON object; id is "" when the object has no "id"
AddResponses ==
    {[status |-> st, decodable |-> d, id |-> id] :
        st \in {200, 201, 500}, d \in BOOLEAN, id \in {"", "mem-42"}}

Metadatas ==
    {[context |-> "work", user_intent |-> "drafting a note"],
     [context |-> "unknown", user_intent |-> "unknown"]}

NoMemory == [id |-> "<nil>", content |-> "<nil>",
             metadata |-> [context |-> "", user_intent |-> ""]]

\* Store.Add of the mem0 store (message dialect): the Memory is built before
\* the request and returned as it is
mem0Add(content, metadata, resp) ==
    IF resp.status \notin {200, 201}
    THEN [err |-> "unexpected status: " \o ToString(resp.status),
          memory |-> NoMemory]
    ELSE [err |-> "",
          memory |-> [id |-> "", content |-> content, metadata |-> metadata]]

\* Store.Add of the supermemory store (content dialect): the id of the
\* response is taken over when the body decodes and the id is not empty
supermemoryAdd(content, metadata, resp) ==
    IF resp.status \notin {200, 201}
    THEN [err |-> "unexpected status: " \o ToString(resp.status),
          memory |-> NoMemory]
    ELSE [err |-> "",
          memory |-> [id |-> IF resp.decodable /\ resp.id # ""
                             THEN resp.id ELSE "",
                      content |-> content, metadata |-> metadata]]

AddInputs ==
    {[fn |-> "Add", dialect |-> d, content |-> c, metadata |-> m,
      resp |-> r] :
        d \in {"message", "content"},
        c \in {"Editing a Markdown file | Context: work | Intent: drafting a note",
               ""},
        m \in Metadatas, r \in AddResponses}

AddCall ==
    /\ libCall.fn = "Add"
    /\ libRet = NotCalled
    /\ libRet' = IF libCall.dialect = "message"
                 THEN mem0Add(libCall.content, libCall.metadata, libCall.resp)
                 ELSE supermemoryAdd(libCall.content, libCall.metadata,
                                     libCall.resp)
    /\ UNCHANGED libCall
    /\ UNCHANGED <<svcVars, qeVars, apiVars, appVars>>

\* ---- parseResponse -------------------------------------------------------

\* JSON values: a string, a number, a list of values, or no value
Str(s) == [t |-> "string", s |-> s, l |-> <<>>]

Num(n) == [t |-> "number", s |-> ToString(n), l |-> <<>>]

List(l) == [t |-> "list", s |-> "", l |-> l]

Absent == [t |-> "absent", s |-> "", l |-> <<>>]

NoObject ==
    [summary |-> Absent, context |-> Absent, user_intent |-> Absent,
     activities |-> Absent, key_elements |-> Absent]

RECURSIVE Repeat(_, _)
Repeat(s, n) == IF n = 0 THEN "" ELSE s \o Repeat(s, n - 1)

\* a text of n characters for a multiple n of ten, plus extra characters
Prose(n, extra) == Repeat("a screen. ", n \div 10) \o extra

\* a reply that is not JSON: json.Unmarshal into the map fails
Text(s) == [text |-> s, isObject |-> FALSE, object |-> NoObject]

\* replies of the vision model: the text, whether it is a JSON object, and
\* the values of the five keys when it is
Replies ==
    { [text |-> "{\"summary\": \"Editing a Markdown file\", \"context\": \"work\", \"activities\": [\"typing\"], \"key_elements\": [\"editor\", \"preview\"], \"user_intent\": \"drafting a note\"}",
       isObject |-> TRUE,
       object |-> [summary |-> Str("Editing a Markdown file"),
                   context |-> Str("work"),
                   user_intent |-> Str("drafting a note"),
                   activities |-> List(<<Str("typing")>>),
                   key_elements |-> List(<<Str("editor"), Str("preview")>>)]],
      [text |-> "{\"summary\": 7, \"context\": \"work\", \"activities\": [\"typing\", 3], \"key_elements\": \"editor\"}",
       isObject |-> TRUE,
       object |-> [summary |-> Num(7),
                   context |-> Str("work"),
                   user_intent |-> Absent,
                   activities |-> List(<<Str("typing"), Num(3)>>),
                   key_elements |-> Str("editor")]],
      Text("[\"Editing a Markdown file\"]"),
      Text("not json here; just prose"),
      Text(""),
      Text(Prose(500, "")),
      Text(Prose(500, "!")),
      Text(Prose(600, "")) }

\* the string elements of a list value, in order
Strings(value) ==
    LET strs == SelectSeq(value.l, LAMBDA e : e.t = "string")
    IN  [i \in 1 .. Len(strs) |-> strs[i].s]

\* parseResponse of internal/llm/client.go: the content, cut after 500 bytes
parseResponse(content) ==
    [summary |-> IF Len(content.text) > 500
                 THEN SubSeq(content.text, 1, 500) \o "..."
                 ELSE content.text,
     context |-> "unknown",
     user_intent |-> "unknown",
     activities |-> EmptySlice,
     key_elements |-> EmptySlice]

\* parseResponse of the supermemory client: the fields of a JSON object
\* replace the defaults, type-checked one by one
supermemoryParseResponse(content) ==
    LET o == content.object
        json == content.isObject
    IN  [summary |-> IF json /\ o.summary.t = "string"
                     THEN o.summary.s ELSE content.text,
         context |-> IF json /\ o.context.t = "string"
                     THEN o.context.s ELSE "unknown",
         user_intent |-> IF json /\ o.user_intent.t = "string"
                         THEN o.user_intent.s ELSE "unknown",
         activities |-> IF json /\ o.activities.t = "list"
                        THEN [isNil |-> FALSE,
                              elems |-> Strings(o.activities)]
                        ELSE EmptySlice,
         key_elements |-> IF json /\ o.key_elements.t = "list"
                          THEN [isNil |-> FALSE,
                                elems |-> Strings(o.key_elements)]
                          ELSE EmptySlice]

ParseInputs ==
    {[fn |-> "parseResponse", client |-> c, content |-> r] :
        c \in {"llm", "supermemory"}, r \in Replies}

ParseCall ==
    /\ libCall.fn = "parseResponse"
    /\ libRet = NotCalled
    /\ libRet' = IF libCall.client = "llm"
                 THEN parseResponse(libCall.content)
                 ELSE supermemoryParseResponse(libCall.content)
    /\ UNCHANGED libCall
    /\ UNCHANGED <<svcVars, qeVars, apiVars, appVars>>

\* ---- NewClient, AnalyzeScreen and GenerateResponse ----------------------

CerebrasURL == "https://api.cerebras.ai/v1"

\* values of config.LLMConfig: the defaults of Load, and what config.yaml and
\* the environment can put in their place
LLMConfigs ==
    {[BaseURL |-> u, Model |-> m, CerebrasAPIKey |-> k, CerebrasModel |-> cm] :
        u \in {"http://localhost:1234/v1", "http://gpu-box:1234/v1"},
        m \in {"local-model", "lfm2-vl"},
        k \in {"", "csk-live"},
        cm \in {"gpt-oss-120b", ""}}

\* NewClient: the endpoints (and key) of the vision and the chat client
NewClient(cfg) ==
    [visionURL |-> cfg.BaseURL,
     chatURL |-> IF cfg.CerebrasAPIKey # "" THEN CerebrasURL ELSE cfg.BaseURL,
     chatKey |-> cfg.CerebrasAPIKey]

\* AnalyzeScreen: the request goes to visionClient with config.Model
AnalyzeScreen(cfg) ==
    [url |-> NewClient(cfg).visionURL, model |-> cfg.Model]

\* GenerateResponse: the request goes to chatClient with CerebrasModel, or
\* with config.Model when CerebrasModel is empty
GenerateResponse(cfg) ==
    [url |-> NewClient(cfg).chatURL,
     model |-> IF cfg.CerebrasModel = "" THEN cfg.Model
               ELSE cfg.CerebrasModel]

ChatInputs ==
    {[fn |-> "GenerateResponse", cfg |-> cfg] : cfg \in LLMConfigs}

ChatCall ==
    /\ libCall.fn = "GenerateResponse"
    /\ libRet = NotCalled
    /\ libRet' = [chat |-> GenerateResponse(libCall.cfg),
                  vision |-> AnalyzeScreen(libCall.cfg)]
    /\ UNCHANGED libCall
    /\ UNCHANGED <<svcVars, qeVars, apiVars, appVars>>

\* ---- Capturer.resize and resizeImage --------------------------------------

\* sizes of the primary display and values of max_width and max_height
Widths == {640, 1000, 1920, 2560}

Heights == {480, 1080, 2880}

MaxWidths == {0, 1280}

MaxHeights == {0, 720}

Size(w, h) == [width |-> w, height |-> h]

\* int(float64(n) * (float64(num) / float64(den))) for positive operands, up to
\* the rounding of the float64 product
Scaled(n, num, den) == (n * num) \div den

\* Capturer.resize of internal/capture: only MaxWidth is looked at; the new
\* height is the old one times MaxWidth / width
resize(img, maxWidth, maxHeight) ==
    IF maxWidth <= 0 THEN img
    ELSE IF img.width <= maxWidth THEN img
    ELSE Size(maxWidth, Scaled(img.height, maxWidth, img.width))

\* resizeImage of the supermemory capturer: unchanged unless both caps are
\* positive and one is exceeded; else scaled by the smaller of the two ratios
resizeImage(img, maxWidth, maxHeight) ==
    IF maxWidth <= 0 \/ maxHeight <= 0 THEN img
    ELSE IF img.width <= maxWidth /\ img.height <= maxHeight THEN img
    ELSE IF maxHeight * img.width < maxWidth * img.height
    THEN Size(Scaled(img.width, maxHeight, img.height),
              Scaled(img.height, maxHeight, img.height))
    ELSE Size(Scaled(img.width, maxWidth, img.width),
              Scaled(img.height, maxWidth, img.width))

ResizeInputs ==
    {[fn |-> "resize", capturer |-> c, img |-> Size(w, h), maxWidth |-> mw,
      maxHeight |-> mh] :
        c \in {"capture", "supermemory"}, w \in Widths, h \in Heights,
        mw \in MaxWidths, mh \in MaxHeights}

ResizeCall ==
    /\ libCall.fn = "resize"
    /\ libRet = NotCalled
    /\ libRet' = IF libCall.capturer = "capture"
                 THEN resize(libCall.img, libCall.maxWidth, libCall.maxHeight)
                 ELSE resizeImage(libCall.img, libCall.maxWidth,
                                  libCall.maxHeight)
    /\ UNCHANGED libCall
    /\ UNCHANGED <<svcVars, qeVars, apiVars, appVars>>

(***************************************************************************)
(* Part VI.  The operations App exposes to the frontend (cmd/app/app.go):  *)
(* GetStatus, GetConfig, Chat, UpdateConfig and ToggleCapture.  App.config *)
(* and Service.config are one object.                                      *)
(***************************************************************************)

\* faulty variant of Initialised: the nil checks are left out
Initialised_Always == TRUE

\* a.config, a.service and a.quickEnhance are not nil: Startup sets the three
\* once config.Load has succeeded (service.New returns no error)
Initialised == quickEnhance

BoolStr(b) == IF b THEN "true" ELSE "false"

\* int(v) of a float64 given in halves: the fraction is dropped
IntOf(halves) ==
    IF halves >= 0 THEN halves \div 2 ELSE 0 - ((0 - halves) \div 2)

\* a JSON number (in halves), a JSON boolean, or a key that is missing or
\* holds a value of another type
Number(halves) == [set |-> TRUE, halves |-> halves]

NoNumber == [set |-> FALSE, halves |-> 0]

Boolean(b) == [set |-> TRUE, b |-> b]

NoBoolean == [set |-> FALSE, b |-> FALSE]

\* "capture" objects of the updates the frontend sends: no known key;
\* intervalSeconds 0.5; intervalSeconds 60 and quality 80; enabled false
Updates ==
    {[intervalSeconds |-> NoNumber, quality |-> NoNumber,
      enabled |-> NoBoolean],
     [intervalSeconds |-> Number(1), quality |-> NoNumber,
      enabled |-> NoBoolean],
     [intervalSeconds |-> Number(120), quality |-> Number(160),
      enabled |-> NoBoolean],
     [intervalSeconds |-> NoNumber, quality |-> NoNumber,
      enabled |-> Boolean(FALSE)]}

\* App.getExtensionStatus
getExtensionStatus ==
    IF ~Initialised
    THEN {<<"extension.enabled", "false">>}
    ELSE {<<"extension.enabled", BoolStr(cfgExtension)>>,
          <<"extension.port", ToString(cfgPort)>>,
          <<"extension.running", BoolStr(httpServer # "none")>>}

\* Service.GetStatus, as one step (its reads of lastState word by word are
\* GetStatusBegin and GetStatusEnd)
serviceStatus ==
    {<<"running", BoolStr(running)>>,
     <<"platform", "windows">>,
     <<"last_state", StringOf(lastState)>>,
     <<"config.capture_interval", ToString(cfgInterval)>>,
     <<"config.capture_enabled", BoolStr(cfgEnabled)>>}

\* the app-level variables an operation other than Startup and Shutdown
\* leaves alone
hostVars == <<appPc, cfgPort, cfgExtension, httpAddr, httpServer,
              quickEnhance, qeRunning, qeCancelled, listenerPc, hotkey,
              attempts, appLog>>

\* the variables of the service other than the capture settings
loopVars == <<cfgProcess, ctxCancelled, runPc, runErr, running, stopClosed,
              wg, lastState, tickPending, nTicks, nCaptures, jobPc,
              jobResult, jobAdded, callLog, statusPc, statusOut,
              tickerPeriod, now, captureTime, jobStamp, recent, jobContext,
              jobMeta>>

\* App.GetStatus
AppGetStatus ==
    /\ appPc # "shutdown"
    /\ ~Crashed
    /\ appOut' = Out("GetStatus",
                     (IF ~Initialised
                      THEN {<<"running", "false">>,
                            <<"platform", "unknown">>,
                            <<"lastState", "Service not initialized">>}
                      ELSE serviceStatus)
                     \cup getExtensionStatus
                     \cup {<<"quickEnhance.running", BoolStr(quickEnhance)>>},
                     "", "", FALSE)
    /\ UNCHANGED <<hostVars, configFile>>
    /\ UNCHANGED <<svcVars, qeVars, apiVars, libVars>>

\* App.GetConfig: the capture section of the map (the other sections are
\* read from fields nothing changes after Load)
AppGetConfig ==
    /\ appPc # "shutdown"
    /\ ~Crashed
    /\ appOut' = Out("GetConfig",
                     IF ~Initialised
                     THEN {}
                     ELSE {<<"capture.intervalSeconds", ToString(cfgInterval)>>,
                           <<"capture.quality", ToString(cfgQuality)>>,
                           <<"capture.enabled", BoolStr(cfgEnabled)>>,
                           <<"extension.enabled", BoolStr(cfgExtension)>>,
                           <<"extension.port", ToString(cfgPort)>>,
                           <<"quickEnhance.hotkey", "Ctrl+Alt+E">>},
                     "", "", FALSE)
    /\ UNCHANGED <<hostVars, configFile>>
    /\ UNCHANGED <<svcVars, qeVars, apiVars, libVars>>

\* App.Chat: without a service the error; else what Service.Chat returns
\* within 30 s, a reply of the model or its error
AppChat ==
    /\ appPc # "shutdown"
    /\ ~Crashed
    /\ \E replied \in BOOLEAN :
          appOut' = IF ~Initialised
                    THEN Out("Chat", {}, "", "service not initialized", FALSE)
                    ELSE IF replied
                    THEN Out("Chat", {}, "You were editing a note.", "", FALSE)
                    ELSE Out("Chat", {}, "", "chat request failed", FALSE)
    /\ UNCHANGED <<hostVars, configFile>>
    /\ UNCHANGED <<svcVars, qeVars, apiVars, libVars>>

\* the capture settings after UpdateConfig has applied the updates
updated(updates) ==
    [intervalSeconds |-> IF updates.intervalSeconds.set
                         THEN IntOf(updates.intervalSeconds.halves)
                         ELSE cfgInterval,
     quality |-> IF updates.quality.set
                 THEN IntOf(updates.quality.halves)
                 ELSE cfgQuality,
     enabled |-> IF updates.enabled.set THEN updates.enabled.b
                 ELSE cfgEnabled]

\* App.UpdateConfig: without a config the error; else the three capture
\* settings present in the updates are assigned and the config is saved:
\* Config.Save writes config.yaml or returns the error of os.WriteFile
UpdateConfig(updates) ==
    /\ appPc # "shutdown"
    /\ ~Crashed
    /\ \E written \in BOOLEAN :
          IF ~Initialised
          THEN /\ appOut' = Out("UpdateConfig", {}, "",
                                "config not initialized", FALSE)
               /\ UNCHANGED <<cfgInterval, cfgQuality, cfgEnabled, configFile>>
          ELSE /\ cfgInterval' = updated(updates).intervalSeconds
               /\ cfgQuality' = updated(updates).quality
               /\ cfgEnabled' = updated(updates).enabled
               /\ configFile' = IF written THEN updated(updates)
                                ELSE configFile
               /\ appOut' = Out("UpdateConfig", {}, "",
                                IF written THEN "" ELSE "write config.yaml",
                                FALSE)
    /\ UNCHANGED <<hostVars, loopVars, loopPc>>
    /\ UNCHANGED <<qeVars, apiVars, libVars>>

\* faulty variant of loopAfterToggle: disabling capture ends the loop
loopAfterToggle_Stop(enabled) ==
    IF enabled \/ loopPc = "none" THEN loopPc ELSE "exited"

\* ToggleCapture does not touch the captureLoop goroutine
loopAfterToggle(enabled) == loopPc

\* App.ToggleCapture: without a config false; else Capture.Enabled is
\* assigned (in memory only) and returned
ToggleCapture(enabled) ==
    /\ appPc # "shutdown"
    /\ ~Crashed
    /\ IF ~Initialised
       THEN /\ appOut' = Out("ToggleCapture", {}, "", "", FALSE)
            /\ UNCHANGED <<cfgEnabled, loopPc>>
       ELSE /\ cfgEnabled' = enabled
            /\ loopPc' = loopAfterToggle(enabled)
            /\ appOut' = Out("ToggleCapture", {}, "", "", enabled)
    /\ UNCHANGED <<hostVars, loopVars, cfgInterval, cfgQuality, configFile>>
    /\ UNCHANGED <<qeVars, apiVars, libVars>>

(***************************************************************************)
(* Specifications.                                                         *)
(***************************************************************************)

\* the enhancer and the API before any call is made
ApiQuiet == ApiStart(<<>>, [c \in Calls |-> NoCall])

\* the host before Startup with the default configuration
AppQuiet == AppStart(7345, TRUE)

\* no client call under way
LibQuiet == LibStart(NoLibCall)

SvcNext ==
    \/ Cancel
    \/ RunCheckLLM
    \/ RunCheckMem
    \/ RunStart
    \/ stop
    \/ RunReturn
    \/ Tick
    \/ LoopFirst
    \/ LoopTick
    \/ LoopStop
    \/ LoopCtxDone
    \/ \E j \in Turns : JobGetRecent(j)
    \/ \E j \in Turns : JobAnalyze(j)
    \/ \E j \in Turns : JobAnalyzeReturn(j)
    \/ \E j \in Turns : JobAddReturn(j)
    \/ \E j \in Turns : JobWriteEnd(j)
    \/ GetStatusBegin
    \/ GetStatusEnd

\* the orchestrator alone: the quick-enhance controller is never triggered
Init == SvcInit /\ QEStart("", "") /\ ApiQuiet /\ AppQuiet /\ LibQuiet

Next == SvcNext

Spec == Init /\ [][Next]_vars

\* the orchestrator before Run is called, with the capture loop disabled
SvcQuiet == SvcInit /\ ~cfgEnabled /\ ~cfgProcess

QENext ==
    \/ \E h \in Hotkeys : HkPress(h)
    \/ \E h \in Hotkeys : HkSave(h)
    \/ \E h \in Hotkeys : HkClear(h)
    \/ \E h \in Hotkeys : HkCopy(h)
    \/ \E h \in Hotkeys : HkRead(h)
    \/ \E h \in Hotkeys : HkRestore(h)
    \/ \E p \in Pastes : PasteSave(p)
    \/ \E p \in Pastes : PasteSet(p)
    \/ \E p \in Pastes : PasteCtrlV(p)
    \/ \E p \in Pastes : PasteRestore(p)

\* the quick-enhance controller alone, for any clipboard text and selection
QEInit ==
    /\ SvcQuiet
    /\ ApiQuiet
    /\ AppQuiet
    /\ LibQuiet
    /\ \E clip \in {"", "copied earlier"}, sel \in {"", "selected text"} :
          QEStart(clip, sel)

SpecQE == QEInit /\ [][QENext]_vars

EnhNext ==
    \/ \E c \in Calls : EnhancePrompt(c)
    \/ \E c \in Calls : EnhanceSearch(c)
    \/ \E c \in Calls : StatsLock(c)
    \/ \E c \in Calls : StatsStore(c)

\* one caller alone
Solo(req) == [c \in Calls |-> IF c = 1 THEN req ELSE NoCall]

\* the enhancer alone: one Enhance call, for any prompt and any list of hits
EnhInit ==
    /\ SvcQuiet
    /\ QEStart("", "")
    /\ AppQuiet
    /\ LibQuiet
    /\ \E k \in 0 .. MaxResults :
          \E scores \in [1 .. k -> Scores], context \in Contexts, p \in Prompts :
             ApiStart(HitList(scores, context), Solo(HotkeyCall(p)))

SpecEnh == EnhInit /\ [][EnhNext]_vars

ApiNext ==
    \/ \E c \in Calls : corsMiddleware(c)
    \/ \E c \in Calls : NotFound(c)
    \/ \E c \in Calls : handleHealth(c)
    \/ \E c \in Calls : handleEnhance(c)
    \/ \E c \in Calls : handleMemorySearch(c)
    \/ \E c \in Calls : handleStatus(c)
    \/ \E c \in Calls : EnhancePrompt(c)
    \/ \E c \in Calls : EnhanceSearch(c)
    \/ \E c \in Calls : StatsLock(c)
    \/ \E c \in Calls : StatsStore(c)
    \/ \E c \in Calls : handleRequest(c)

\* a list of hits longer than what any enhancement type puts in the prompt:
\* all but the last above the threshold
LongList ==
    [i \in 1 .. MaxResults |->
        [content |-> ContentOf(i), context |-> "unknown",
         score |-> IF i < MaxResults THEN 90 ELSE 85]]

\* enhancement calls that run next to the request of caller 1
Background ==
    {NoCall, HotkeyCall("fix the login bug"),
     Req("go", "POST", "/api/enhance", NoOrigin,
         Body("fix the login bug", "", 0), "", "")}

\* the server and the enhancer under load: caller 1 sends any request, the
\* other callers enhance a prompt or stay away
ApiInit ==
    /\ SvcQuiet
    /\ QEStart("", "")
    /\ AppQuiet
    /\ LibQuiet
    /\ \E hits \in {<<>>, SubSeq(LongList, 1, 1), LongList},
          first \in Requests,
          others \in [Calls \ {1} -> Background] :
          ApiStart(hits, [c \in Calls |-> IF c = 1 THEN first ELSE others[c]])

SpecAPI == ApiInit /\ [][ApiNext]_vars

\* the orchestrator as service.New leaves it, before Startup calls svc.Run
SvcCreated ==
    /\ cfgEnabled \in BOOLEAN
    /\ cfgProcess \in BOOLEAN
    /\ ctxCancelled = FALSE
    /\ runPc = "unstarted"
    /\ runErr = "none"
    /\ running = FALSE
    /\ stopClosed = FALSE
    /\ wg = 0
    /\ lastState = GoString("")
    /\ loopPc = "none"
    /\ tickPending = FALSE
    /\ nTicks = 0
    /\ nCaptures = 0
    /\ jobPc = [j \in Turns |-> "none"]
    /\ jobResult = [j \in Turns |-> NoResult]
    /\ jobAdded = [j \in Turns |-> NoContent]
    /\ callLog = [j \in Turns |-> <<>>]
    /\ statusPc = "idle"
    /\ statusOut = NoStatus

BootNext ==
    \/ Startup
    \/ ListenAndServe
    \/ RegisterPrimary
    \/ RegisterFallback
    \/ ListenerCtxDone
    \/ Shutdown

\* the host from Startup to Shutdown, for any extension configuration: the
\* server's listener and the hotkey listener
BootInit ==
    /\ SvcCreated
    /\ SvcEnv(30, [j \in Turns |-> 1], [j \in Turns |-> NoMemories])
    /\ QEStart("", "")
    /\ ApiQuiet
    /\ LibQuiet
    /\ \E port \in Ports, extension \in BOOLEAN : AppStart(port, extension)

SpecBoot == BootInit /\ [][BootNext]_vars

\* the steps of the orchestrator under the host: the context Startup passes
\* to svc.Run is cancelled only when Run returns
AppNext ==
    \/ Startup
    \/ Shutdown
    \/ RunCheckLLM
    \/ RunCheckMem
    \/ RunStart
    \/ Tick
    \/ LoopFirst
    \/ LoopTick
    \/ \E j \in Turns : JobGetRecent(j)
    \/ \E j \in Turns : JobAnalyze(j)
    \/ \E j \in Turns : JobAnalyzeReturn(j)
    \/ \E j \in Turns : JobAddReturn(j)
    \/ \E j \in Turns : JobWriteEnd(j)

\* the host and the orchestrator it starts, with the default extension
\* configuration and capture interval, for any answers of the memory store
AppInit ==
    /\ SvcCreated
    /\ \E answers \in [Turns -> RecentAnswers] :
          SvcEnv(30, [j \in Turns |-> 1], answers)
    /\ QEStart("", "")
    /\ ApiQuiet
    /\ LibQuiet
    /\ AppQuiet

SpecApp == AppInit /\ [][AppNext]_vars

\* the host and the orchestrator it starts, for any interval_seconds in
\* config.yaml and any durations of the captures
TimeInit ==
    /\ SvcCreated
    /\ \E interval \in Intervals, durations \in [Turns -> CaptureTimes] :
          SvcEnv(interval, durations, [j \in Turns |-> NoMemories])
    /\ QEStart("", "")
    /\ ApiQuiet
    /\ LibQuiet
    /\ AppQuiet

SpecTime == TimeInit /\ [][AppNext]_vars

\* the operations of App next to the host and the capture loop it starts
\* (ProcessOnCapture off: no job is started)
CfgNext ==
    \/ Startup
    \/ Shutdown
    \/ RunCheckLLM
    \/ RunCheckMem
    \/ RunStart
    \/ Tick
    \/ LoopFirst
    \/ LoopTick
    \/ AppGetStatus
    \/ AppGetConfig
    \/ AppChat
    \/ \E updates \in Updates : UpdateConfig(updates)
    \/ \E enabled \in BOOLEAN : ToggleCapture(enabled)

CfgInit ==
    /\ SvcCreated
    /\ ~cfgProcess
    /\ SvcEnv(30, [j \in Turns |-> 1], [j \in Turns |-> NoMemories])
    /\ QEStart("", "")
    /\ ApiQuiet
    /\ LibQuiet
    /\ AppQuiet

SpecCfg == CfgInit /\ [][CfgNext]_vars

LibNext ==
    \/ SearchCall
    \/ AddCall
    \/ ParseCall
    \/ ChatCall
    \/ ResizeCall

\* one call of a backend client, for any arguments and any backend answer
LibInit ==
    /\ SvcQuiet
    /\ QEStart("", "")
    /\ ApiQuiet
    /\ AppQuiet
    /\ \E call \in SearchInputs \cup AddInputs \cup ParseInputs \cup ChatInputs
                     \cup ResizeInputs :
          LibStart(call)

SpecLib == LibInit /\ [][LibNext]_vars

(***************************************************************************)
(* Claims about the orchestrator, checked under Spec.                      *)
(***************************************************************************)

\* C1: at any moment at most one analyse-and-store job is in flight: a tick
\* that fires while a job is still running starts no further job.
C1_InFlightBounded == Cardinality(InFlight) <= 1

\* C2: Run returns only after the capture loop has exited and every started
\* job has finished; once Run has returned no job issues a call or writes
\* last_state.
C2_RunJoinsBeforeReturn ==
    /\ [](runPc = "returned" =>
            /\ loopPc \in {"none", "exited"}
            /\ InFlight = {})
    /\ [][runPc = "returned" => UNCHANGED <<callLog, lastState, jobPc>>]_vars

C2_Witness ==
    /\ runPc = "returned"
    /\ loopPc = "exited"
    /\ \E j \in Turns : jobPc[j] = "stored"
    /\ \E j \in Turns : jobPc[j] = "analyzeFailed"

\* C3: once the context of Run is cancelled, processCapture is not called
\* again: no capture is taken and no job is started after that point.
C3_NoCaptureAfterCancel == [][ctxCancelled => nCaptures' = nCaptures]_vars

\* C4: once the context of Run is cancelled, no job issues a further
\* memory-store request (get_recent or add).
C4_NoStoreRequestAfterCancel ==
    [][ctxCancelled =>
         \A j \in Turns :
            Len(callLog'[j]) > Len(callLog[j]) =>
               callLog'[j][Len(callLog'[j])] \notin {"get_recent", "add"}]_vars

\* C5: a failed capture, analysis or store never ends the capture loop and
\* never makes Run return an error: while no shutdown is signalled the loop
\* is back at its select after every turn, and a pending tick can be taken.
C5_FailuresAbsorbed ==
    /\ (nCaptures >= 1 /\ ~ctxCancelled) => loopPc = "select"
    /\ (loopPc = "exited" => ctxCancelled)
    /\ (nCaptures >= 1 => runErr \in {"none", "nil"})
    /\ (nCaptures >= 1 /\ ~ctxCancelled /\ tickPending) => ENABLED LoopTick
    /\ \A j \in Turns : j <= nCaptures => jobPc[j] # "none"

C5_Witness ==
    /\ ~ctxCancelled
    /\ \E j, k \in Turns :
          /\ j < k
          /\ jobPc[j] \in {"captureFailed", "analyzeFailed", "addFailed"}
          /\ jobPc[k] \in Active

\* C6: running is true only after both health checks have passed and before
\* stop; a failed check makes Run return an error with no capture loop; a
\* GetStatus call reports running=true only in that window.
C6_RunningOnlyWhileStarted ==
    /\ [](running => runPc = "waiting")
    /\ [](runErr \in {"llm", "mem"} =>
            ~running /\ runPc = "returned" /\ loopPc = "none" /\ nCaptures = 0)
    /\ [](loopPc # "none" => runPc \in {"waiting", "joining", "returned"})
    /\ [][(statusPc = "idle" /\ statusPc' = "reading" /\ statusOut'.running)
            => runPc = "waiting"]_vars

C6_Witness ==
    /\ statusPc = "idle"
    /\ statusOut.running
    /\ runPc = "returned"

\* the order of the external calls of one job
CallOrder == <<"get_recent", "analyze", "add">>

IsPrefix(s, t) == Len(s) <= Len(t) /\ SubSeq(t, 1, Len(s)) = s

\* C7: the external calls of one job are get_recent, analyze, add in that
\* order, each issued only while no earlier call of the job is outstanding;
\* add is never issued for a capture whose analysis failed.
C7_CallsInOrder ==
    \A j \in Turns :
       /\ IsPrefix(callLog[j], CallOrder)
       /\ (jobPc[j] = "getRecent" => callLog[j] = <<"get_recent">>)
       /\ (jobPc[j] = "analyze" => callLog[j] = <<"get_recent", "analyze">>)
       /\ (jobPc[j] = "add" => callLog[j] = CallOrder)
       /\ (jobPc[j] = "analyzeFailed" => callLog[j] = <<"get_recent", "analyze">>)
       /\ (Len(callLog[j]) = 3 => jobResult[j] \in Results)

C7_Witness ==
    /\ \E j \in Turns : jobPc[j] = "analyzeFailed" /\ jobResult[j] = NoResult
    /\ \E j \in Turns : jobPc[j] = "stored"

\* number of add calls a job has issued
AddCalls(j) == Cardinality({i \in 1 .. Len(callLog[j]) : callLog[j][i] = "add"})

\* C8: each dispatched capture has one job goroutine; the job issues at most
\* one add, and exactly one once its analysis has succeeded, with content
\* "{summary} | Context: {context} | Intent: {user_intent}" of its result.
C8_OneAddWithContent ==
    /\ wg = Cardinality(InFlight)
            + (IF loopPc \in {"first", "select"} THEN 1 ELSE 0)
    /\ \A j \in Turns :
          /\ AddCalls(j) <= 1
          /\ (jobResult[j] \in Results <=> AddCalls(j) = 1)
          /\ (AddCalls(j) = 0 <=> jobAdded[j] = NoContent)
          /\ AddCalls(j) = 1 =>
                jobAdded[j] = jobResult[j].summary \o " | Context: "
                                 \o jobResult[j].context \o " | Intent: "
                                 \o jobResult[j].user_intent
          /\ jobResult[j].summary = "Editing a Markdown file" =>
                jobAdded[j] =
                  "Editing a Markdown file | Context: work | Intent: drafting a note"

C8_Witness ==
    \E j \in Turns :
       /\ jobPc[j] = "stored"
       /\ jobAdded[j] =
            "Editing a Markdown file | Context: work | Intent: drafting a note"

\* C9: no write of last_state by a job overlaps another job's write or a
\* GetStatus read.
C9_LastStateGuarded ==
    /\ Cardinality({j \in Turns : jobPc[j] = "write"}) <= 1
    /\ ~(statusPc = "reading" /\ \E j \in Turns : jobPc[j] = "write")

(***************************************************************************)
(* Claims about the quick-enhance controller, checked under SpecQE.        *)
(***************************************************************************)

\* every started hotkey press and paste request has run to its end, restore
\* goroutine included
QEQuiescent ==
    /\ \A h \in Hotkeys : hkPc[h] \in {"idle", "done"}
    /\ \A p \in Pastes : pastePc[p] \in {"idle", "done"}

\* C10: after one hotkey-triggered capture followed by PasteEnhanced, once
\* all delayed restores have run, the clipboard holds the text it held
\* before the hotkey was pressed.
C10_ClipboardPreserved ==
    ( /\ QEQuiescent
      /\ Cardinality({h \in Hotkeys : hkPc[h] = "done"}) = 1
      /\ \E p \in Pastes : pastePc[p] = "done" )
    => clipboard = original

\* hotkey presses whose clipboard sequence of getSelectedText (save, clear,
\* copy, read, delayed restore) has begun and has not yet ended
InSequence == {h \in Hotkeys : hkPc[h] \in {"saved", "cleared", "copied", "restoring"}}

\* C11: the clipboard save / use / restore sequences of two hotkey presses
\* never interleave: while the sequence of one press is in progress no other
\* press has a handler running or a sequence of its own under way.
C11_InvocationsSerialized ==
    \A h \in InSequence : \A g \in Hotkeys \ {h} : hkPc[g] \in {"idle", "done"}

(***************************************************************************)
(* Claims about the enhancer, checked under SpecEnh.                       *)
(***************************************************************************)

\* Enhance has returned a result (not an error) to caller c
Returned(c) == callResult[c].returned /\ callResult[c].err = ""

\* the search results scored strictly above 0.85, and the number of the rest
NHigh == Cardinality({i \in DOMAIN store : store[i].score > 85})

NCtx == Len(store) - NHigh

\* C12: for a non-empty result list with high = the results scored strictly
\* above 0.85 and ctx = the rest, Enhance returns contextual when |high| >= 2,
\* detailed when |high| = 1 and |ctx| >= 2, minimal when |high| = 0 and
\* |ctx| >= 1, and contextual otherwise.
C12_TypeGates ==
    \A c \in Calls :
       (Returned(c) /\ Len(store) > 0) =>
          callResult[c].result.EnhancementType =
             IF NHigh >= 2 THEN "contextual"
             ELSE IF NHigh = 1 /\ NCtx >= 2 THEN "detailed"
             ELSE IF NHigh = 0 /\ NCtx >= 1 THEN "minimal"
             ELSE "contextual"

C12_Witness ==
    \E c \in Calls :
       /\ Returned(c)
       /\ callResult[c].result.EnhancementType = "detailed"
       /\ NHigh = 1
       /\ \A i \in DOMAIN store : store[i].score \in {85, 90}

\* C13: every result of Enhance has exactly one type out of none, contextual,
\* detailed, minimal, fixed by the result list (none exactly for the empty
\* list), and enhanced_prompt equals original_prompt iff the type is none.
C13_TypeTotalAndNoneIffUnchanged ==
    \A c \in Calls :
       Returned(c) =>
          LET r == callResult[c].result
          IN  /\ r.EnhancementType \in {"none", "contextual", "detailed", "minimal"}
              /\ (r.EnhancementType = "none" <=> Len(store) = 0)
              /\ (r.EnhancedPrompt = r.OriginalPrompt <=> r.EnhancementType = "none")
              /\ r.OriginalPrompt = callReq[c].body.prompt

C13_Witness ==
    \E c \in Calls :
       /\ Returned(c)
       /\ callResult[c].result.EnhancementType = "minimal"
       /\ callResult[c].result.OriginalPrompt = ""
       /\ callResult[c].result.EnhancedPrompt # ""

\* the writes that make up the prompt returned for the current result list
BuilderOf(c) ==
    buildEnhancedPrompt(callReq[c].body.prompt, highRelevanceMemories(store),
                        contextualMemories(store), memoryContents(store),
                        callResult[c].result.EnhancementType)

\* positions of the memory lines among the writes b, and of the
\* additional-context heading (past the end when there is none)
ItemsOf(b) == {i \in DOMAIN b : b[i].fmt = "- %s\n"}

HeadingOf(b) ==
    IF \E i \in DOMAIN b : b[i] = Lit("\nAdditional context:\n")
    THEN CHOOSE i \in DOMAIN b : b[i] = Lit("\nAdditional context:\n")
    ELSE Len(b) + 1

\* C14: a contextual result's appendix holds at most 3 lines of the
\* high-score group and at most 2 lines under the additional-context
\* heading; a detailed result's appendix holds at most 4 memory lines.
C14_CapsOnAppendix ==
    \A c \in Calls :
       (Returned(c) /\ Len(store) > 0) =>
          LET b == BuilderOf(c)
              type == callResult[c].result.EnhancementType
          IN  /\ callResult[c].result.EnhancedPrompt = String(b)
              /\ type = "contextual" =>
                    /\ Cardinality({i \in ItemsOf(b) : i < HeadingOf(b)}) <= 3
                    /\ Cardinality({i \in ItemsOf(b) : i > HeadingOf(b)}) <= 2
              /\ type = "detailed" => Cardinality(ItemsOf(b)) <= 4

C14_Witness ==
    \E c \in Calls :
       /\ Returned(c)
       /\ callResult[c].result.EnhancementType = "contextual"
       /\ NHigh > 3
       /\ Cardinality(ItemsOf(BuilderOf(c))) < Len(store)

\* the lines "- {content}" for the first n (at most) of the given results
RECURSIVE ContentLines(_, _)
ContentLines(results, n) ==
    IF n = 0 \/ results = <<>> THEN ""
    ELSE "- " \o Head(results).content \o "\n" \o ContentLines(Tail(results), n - 1)

\* C15: each memory in the enhanced prompt is rendered from its content
\* alone: contextual and detailed blocks hold lines "- {content}" in result
\* order (detailed: the first up to 4 results), and a minimal result ends
\* with "[Note: Consider previous context: {content of the first result}",
\* " and related activities" when more results follow, and "]".
C15_RenderedFromContent ==
    \A c \in Calls :
       (Returned(c) /\ Len(store) > 0) =>
          LET r == callResult[c].result
              high == SelectSeq(store, LAMBDA h : h.score > 85)
              rest == SelectSeq(store, LAMBDA h : ~(h.score > 85))
          IN  /\ r.EnhancementType = "detailed" =>
                    r.EnhancedPrompt =
                       r.OriginalPrompt \o "\n\n[Relevant background]\n"
                          \o ContentLines(store, 4)
              /\ r.EnhancementType = "minimal" =>
                    r.EnhancedPrompt =
                       r.OriginalPrompt \o "\n\n[Note: Consider previous context: "
                          \o store[1].content
                          \o (IF Len(store) > 1 THEN " and related activities" ELSE "")
                          \o "]"
              /\ r.EnhancementType = "contextual" =>
                    r.EnhancedPrompt =
                       r.OriginalPrompt \o "\n\n[Context from previous sessions]\n"
                          \o "Based on my previous activities and context:\n"
                          \o ContentLines(high, 3)
                          \o (IF Len(rest) > 0
                              THEN "\nAdditional context:\n" \o ContentLines(rest, 2)
                              ELSE "")

\* C17: when the memory search succeeds with no results, Enhance returns,
\* without an error, enhanced_prompt equal to the prompt, type none and
\* memories_used an empty (non-nil) list.
C17_NoResultsDegradesToNone ==
    \A c \in Calls :
       (callSearch[c].called /\ callSearch[c].ok /\ Len(store) = 0) =>
          /\ callPc[c] = "done"
          /\ callResult[c] =
               [returned |-> TRUE, err |-> "",
                result |-> [OriginalPrompt |-> callReq[c].body.prompt,
                            EnhancedPrompt |-> callReq[c].body.prompt,
                            MemoriesUsed |-> [isNil |-> FALSE, elems |-> <<>>],
                            EnhancementType |-> "none"]]

C17_Witness ==
    \E c \in Calls :
       /\ callSearch[c].called /\ callSearch[c].ok /\ Len(store) = 0
       /\ callResult[c].returned
       /\ callResult[c].result.EnhancedPrompt = "fix the login bug"

(***************************************************************************)
(* Claims about the HTTP API and the enhancer under load, checked under    *)
(* SpecAPI.                                                                *)
(***************************************************************************)

\* the content of every search result, in the order of the search
ContentsOf(results) == [i \in 1 .. Len(results) |-> results[i].content]

\* caller c has received the 200 response of /api/enhance
EnhanceOK(c) ==
    /\ callReq[c].server = "go"
    /\ callResp[c].status = 200
    /\ callResp[c].body.kind = "enhance"

\* C16: memories_used is the content of every search result in the order of
\* the search, including results the per-type caps leave out of the prompt,
\* and memory_count of the /api/enhance response equals its length.
C16_MemoriesUsedIsFullFootprint ==
    \A c \in Calls :
       /\ (Returned(c) /\ Len(store) > 0) =>
             /\ callResult[c].result.MemoriesUsed.elems = ContentsOf(store)
             /\ ~callResult[c].result.MemoriesUsed.isNil
       /\ EnhanceOK(c) =>
             /\ callResp[c].body.memories_used.elems = ContentsOf(store)
             /\ callResp[c].body.memory_count = Len(store)
             /\ callResp[c].body.memory_count
                   = Len(callResp[c].body.memories_used.elems)

C16_Witness ==
    \E c \in Calls :
       /\ EnhanceOK(c)
       /\ callResp[c].body.enhancement_type = "contextual"
       /\ callResp[c].body.memory_count = Len(store)
       /\ NHigh > 3

\* callers whose Enhance call has returned a result built from memories
Enhancements ==
    {c \in Calls : Returned(c) /\ len(callResult[c].result.MemoriesUsed) >= 1}

\* C18: enhancements_made never decreases and equals the number of Enhance
\* calls that returned a result built from at least one memory, whatever the
\* interleaving of the calls; failed calls and calls that find nothing leave
\* it alone; /api/status reports the counter.
C18_CounterCountsEnhancements ==
    /\ [](enhancementsMade = Cardinality(Enhancements))
    /\ [](\A c \in Calls :
            (callResp[c].status = 200 /\ callResp[c].body.kind = "status") =>
               callResp[c].body.stats.enhancements_made <= enhancementsMade)
    /\ [][/\ enhancementsMade' >= enhancementsMade
          /\ enhancementsMade' <= enhancementsMade + 1
          /\ \A c \in Calls :
                (callPc[c] # "done" /\ callPc'[c] = "done") =>
                   ( enhancementsMade' = enhancementsMade + 1
                     <=> c \in Enhancements' )
          /\ \A c \in Calls :
                (callPc[c] = "mux" /\ callPc'[c] = "done"
                   /\ callResp'[c].body.kind = "status") =>
                   callResp'[c].body.stats.enhancements_made = enhancementsMade
         ]_vars

C18_Witness ==
    /\ enhancementsMade = 2
    /\ \E c, d \in Calls :
          /\ callReq[c].server = "go" /\ c \in Enhancements
          /\ callReq[d].server = "hotkey" /\ d \in Enhancements

\* the response headers of the Access-Control-Allow-* family
AllowHeaders(headers) ==
    {h \in headers : h[1] \in {"Access-Control-Allow-Origin",
                               "Access-Control-Allow-Methods",
                               "Access-Control-Allow-Headers",
                               "Access-Control-Allow-Credentials"}}

\* the allow-list: the chrome-extension:// prefix or a configured localhost
\* origin
InAllowList(origin) ==
    \/ origin.scheme = "chrome-extension"
    \/ OriginString(origin) \in {"http://localhost:3000", "http://localhost:8080",
                                 "http://localhost:7345"}

\* C19: a request bearing an Origin header that is not in the allow-list
\* receives a response without any Access-Control-Allow-* header, on every
\* route and method.
C19_NoCorsForDisallowedOrigin ==
    \A c \in Calls :
       (callResp[c].status # 0 /\ callReq[c].origin # NoOrigin
          /\ ~InAllowList(callReq[c].origin)) =>
          AllowHeaders(callResp[c].headers) = {}

\* caller c sent POST /api/enhance, or GET /api/memories/search, to the Go
\* server and has its response
EnhancePost(c) ==
    /\ callReq[c].server = "go" /\ callResp[c].status # 0
    /\ callReq[c].method = "POST" /\ callReq[c].route = "/api/enhance"

SearchGet(c) ==
    /\ callReq[c].server = "go" /\ callResp[c].status # 0
    /\ callReq[c].method = "GET" /\ callReq[c].route = "/api/memories/search"

\* C20: POST /api/enhance with an empty prompt and GET /api/memories/search
\* without q return 400 without a call of the memory store; a memory-store
\* failure during either call returns 500; otherwise the response is 200.
C20_ValidateThenMapFailures ==
    \A c \in Calls :
       /\ (EnhancePost(c) /\ callReq[c].body.json /\ callReq[c].body.prompt = "") =>
             callResp[c].status = 400 /\ ~callSearch[c].called
       /\ (SearchGet(c) /\ callReq[c].q = "") =>
             callResp[c].status = 400 /\ ~callSearch[c].called
       /\ (EnhancePost(c) /\ callReq[c].body.json /\ callReq[c].body.prompt # "") =>
             /\ callSearch[c].called
             /\ callResp[c].status = IF callSearch[c].ok THEN 200 ELSE 500
       /\ (SearchGet(c) /\ callReq[c].q # "") =>
             /\ callSearch[c].called
             /\ callResp[c].status = IF callSearch[c].ok THEN 200 ELSE 500

C20_Witness ==
    \E c, d \in Calls :
       /\ EnhancePost(c) /\ callReq[c].body.json /\ callReq[c].body.prompt = ""
       /\ callResp[c].status = 400
       /\ EnhancePost(d) /\ callSearch[d].called /\ callResp[d].status = 500

(***************************************************************************)
(* Claims about the desktop host, checked under SpecBoot and SpecApp.      *)
(***************************************************************************)

\* C21: the extension server listens on the configured port (7345 when the
\* configured port is not positive) and accepts connections on loopback
\* addresses only.
C21_ListensOnLoopbackOnly ==
    httpAddr # NoListener =>
        /\ httpAddr.port = (IF cfgPort <= 0 THEN 7345 ELSE cfgPort)
        /\ BoundTo(httpAddr) \subseteq Loopback

\* the lines Startup and the server's goroutine print
HostLines ==
    {"Failed to load config", "Failed to start quick enhance",
     "Extension server error"}
    \cup {"Extension server starting on port " \o ToString(New(p)) :
             p \in Ports}

\* C26: registerHotkey tries Ctrl+Alt+E first and Win+Shift+E only after it
\* failed; when both fail a warning about the hotkey is in the log, Start
\* has not failed and the extension server is not affected.
C26_FallbackThenWarning ==
    /\ attempts \in {<<>>, <<CtrlAltE>>, <<CtrlAltE, WinShiftE>>}
    /\ hotkey = CtrlAltE => attempts = <<CtrlAltE>>
    /\ listenerPc = "failed" =>
          /\ \A i \in DOMAIN appLog :
                appLog[i] # "Failed to start quick enhance"
          /\ cfgExtension => httpServer # "none"
          /\ \E i \in DOMAIN appLog : appLog[i] \notin HostLines

\* C27: once Shutdown has returned the capture loop has ended and no
\* analyse-and-store job is running.
C27_ShutdownStopsCaptureLoop ==
    appPc = "shutdown" =>
        /\ loopPc \in {"none", "exited"}
        /\ InFlight = {}

(***************************************************************************)
(* Claims about the backend clients, checked under SpecLib.                *)
(***************************************************************************)

\* a call of the given client function has returned
Called(fn) == libCall.fn = fn /\ libRet # NotCalled

\* the scores of the results a Search call returned, in order
ScoresOf(results) == [i \in 1 .. len(results) |-> results.elems[i].score]

\* C22: a successful Search returns at most as many results as the limit it
\* asked for and the results are in non-increasing order of score, whatever
\* the backend answered.
C22_AtMostLimitSortedByScore ==
    Called("Search") /\ libRet.err = "" =>
        /\ len(libRet.results) <= libRet.sent.limit
        /\ \A i, j \in 1 .. len(libRet.results) :
              i < j => ScoresOf(libRet.results)[i] >= ScoresOf(libRet.results)[j]

\* C23: when the backend answers a search with status 200 and no results,
\* Search returns an empty non-nil list and so does SearchMemories, the
\* list /api/memories/search puts in its reply.
C23_NoResultsIsEmptyList ==
    Called("Search") /\ libCall.resp.status = 200
                     /\ libCall.resp.shape = "envelope"
                     /\ libCall.resp.results = <<>> =>
        /\ libRet.err = ""
        /\ libRet.results = EmptySlice
        /\ SearchMemories(libRet.results) = EmptySlice

\* C24: a 200 response yields one SearchResult per result object, its
\* content taken from "memory", whether the body is a top-level list or a
\* {"results": [...]} envelope; neither shape is an error.
C24_BothResponseShapesAccepted ==
    Called("Search") /\ libCall.resp.status = 200 =>
        /\ libRet.err = ""
        /\ len(libRet.results) = Len(libCall.resp.results)
        /\ \A i \in 1 .. len(libRet.results) :
              libRet.results.elems[i].content = libCall.resp.results[i].memory

\* the id the backend assigned in its answer to an add, "" when it gave none
AssignedId(resp) == IF resp.decodable THEN resp.id ELSE ""

\* C25: a successful Add returns a Memory with the given content and
\* metadata whose id is the id of the backend's response, or empty when the
\* response has none, in the message and in the content dialect.
C25_AddReturnsBackendId ==
    Called("Add") /\ libRet.err = "" =>
        /\ libRet.memory.content = libCall.content
        /\ libRet.memory.metadata = libCall.metadata
        /\ libRet.memory.id = AssignedId(libCall.resp)

\* the keys of a reply's JSON object whose value is a string
StringKeys(object) ==
    {k \in {"summary", "context", "user_intent"} : object[k].t = "string"}

\* the keys of a reply's JSON object whose value is a list
ListKeys(object) ==
    {k \in {"activities", "key_elements"} : object[k].t = "list"}

\* C28: when the reply is a JSON object, summary, context and user_intent
\* are the string values of their keys, activities and key_elements the
\* string elements of their lists, values of other shapes are skipped, and a
\* reply with all five keys is stored as
\* "{summary} | Context: {context} | Intent: {user_intent}" of its values.
C28_JsonFieldsCopied ==
    Called("parseResponse") /\ libCall.content.isObject =>
        LET o == libCall.content.object
        IN  /\ \A k \in StringKeys(o) : libRet[k] = o[k].s
            /\ \A k \in {"context", "user_intent"} \ StringKeys(o) :
                  libRet[k] = "unknown"
            /\ \A k \in ListKeys(o) : libRet[k].elems = Strings(o[k])
            /\ \A k \in {"activities", "key_elements"} \ ListKeys(o) :
                  libRet[k] = EmptySlice
            /\ StringKeys(o) = {"summary", "context", "user_intent"} =>
                  memoryContent(libRet) =
                      o.summary.s \o " | Context: " \o o.context.s
                                  \o " | Intent: " \o o.user_intent.s

\* C29: when the reply is not a JSON object the summary is the reply itself
\* if it has at most 500 characters and else its first 500 characters and
\* "...", context and user_intent are "unknown", activities and
\* key_elements are empty and not nil.
C29_FallbackTruncatesAt500 ==
    Called("parseResponse") /\ ~libCall.content.isObject =>
        /\ libRet.summary =
              (IF Len(libCall.content.text) <= 500
               THEN libCall.content.text
               ELSE SubSeq(libCall.content.text, 1, 500) \o "...")
        /\ libRet.context = "unknown"
        /\ libRet.user_intent = "unknown"
        /\ libRet.activities = EmptySlice
        /\ libRet.key_elements = EmptySlice

\* C30: without a secondary API key the chat request goes to the primary
\* endpoint with the primary model, as the vision request does; the
\* secondary endpoint and model are used only with a key.
C30_NoKeyFallsBackForBoth ==
    Called("GenerateResponse") /\ libCall.cfg.CerebrasAPIKey = "" =>
        /\ libRet.chat.url = libCall.cfg.BaseURL
        /\ libRet.chat.model = libCall.cfg.Model
        /\ libRet.chat = libRet.vision

(***************************************************************************)
(* Further claims about the enhancer, checked under SpecAPI.               *)
(***************************************************************************)

\* C32: two Enhance calls given the same prompt and the same search results
\* return the same enhanced prompt and the same enhancement type, whatever
\* their page context and max_memories and whichever call came first.
C32_SameInputsSameOutput ==
    \A c, d \in Calls :
       (/\ Returned(c)
        /\ Returned(d)
        /\ callResult[c].result.OriginalPrompt
              = callResult[d].result.OriginalPrompt) =>
          /\ callResult[c].result.EnhancedPrompt
                = callResult[d].result.EnhancedPrompt
          /\ callResult[c].result.EnhancementType
                = callResult[d].result.EnhancementType

C32_Witness ==
    \E c, d \in Calls :
       /\ Returned(c)
       /\ Returned(d)
       /\ callResult[c].result.OriginalPrompt = "fix the login bug"
       /\ callResult[d].result.OriginalPrompt = "fix the login bug"
       /\ callResult[c].result.EnhancementType = "contextual"
       /\ enhanceArgs(callReq[c]).pageContext # enhanceArgs(callReq[d]).pageContext
       /\ enhanceArgs(callReq[c]).maxMemories # enhanceArgs(callReq[d]).maxMemories
       /\ enhancementsMade = 2

(***************************************************************************)
(* Further claims about the orchestrator, checked under Spec.              *)
(***************************************************************************)

\* C37: lastState changes only in a step of a job whose Store.Add has
\* succeeded; when that job has made its assignment lastState is the summary
\* of the job's analysis; a step in which a capture, an analysis or an Add
\* fails leaves lastState unchanged.
C37_LastStateOnlyAfterStore ==
    [][/\ lastState' # lastState =>
             \E j \in Turns : /\ jobPc[j] \in {"add", "write"}
                               /\ jobPc'[j] \in {"write", "stored"}
       /\ \A j \in Turns :
             (jobPc[j] = "write" /\ jobPc'[j] = "stored") =>
                StringOf(lastState') = jobResult[j].summary
       /\ \A j \in Turns :
             (/\ jobPc'[j] # jobPc[j]
              /\ jobPc'[j] \in {"captureFailed", "skipped", "analyzeFailed",
                                "addFailed"}) =>
                lastState' = lastState]_vars

(***************************************************************************)
(* Further claims about the desktop host and the orchestrator it starts,   *)
(* checked under SpecBoot, SpecApp, SpecTime and SpecCfg.                  *)
(***************************************************************************)

\* C39: the controller's running flag is set only if Start has started the
\* overlay and the hotkey listener; a Start whose overlay failed leaves the
\* controller not running.
C39_RunningOnlyIfStarted == qeRunning => listenerPc # "none"

\* C33: once captureLoop has been started its ticker exists and has a period
\* of at least one second, whatever interval_seconds is configured.
C33_TickerAtLeastOneSecond ==
    loopPc # "none" => (~Crashed /\ tickerPeriod >= 1)

\* positions of a job after GetRecent has returned
PastGetRecent ==
    {"analyze", "add", "write", "stored", "analyzeFailed", "addFailed"}

\* positions of a job that has handed a memory to Store.Add
PastAnalyze == {"add", "write", "stored", "addFailed"}

\* C38: a job whose GetRecent failed still calls AnalyzeScreen, with the
\* empty previous context of a job that got no memories, and after a
\* successful analysis hands Store.Add the content and the timestamp of its
\* own result and capture.
C38_GetRecentFailureKeepsJob ==
    \A j \in Turns :
       recent[j].err =>
          /\ jobPc[j] \in PastGetRecent =>
                /\ Len(callLog[j]) >= 2
                /\ callLog[j][2] = "analyze"
                /\ jobContext[j] = ""
                /\ jobContext[j] = previousContext(Memories(NoMemories))
          /\ jobPc[j] \in PastAnalyze =>
                /\ callLog[j] = <<"get_recent", "analyze", "add">>
                /\ jobAdded[j] = memoryContent(jobResult[j])
                /\ jobMeta[j] = RFC3339(jobStamp[j])

\* a job whose GetRecent failed has stored its memory, while another job was
\* given two memories as previous context
C38_Witness ==
    \E j, k \in Turns :
       /\ recent[j].err
       /\ jobPc[j] = "stored"
       /\ jobContext[j] = ""
       /\ ~recent[k].err
       /\ jobContext[k] = "Reading mail Editing a note "

\* the capture turns whose job has handed a memory to Store.Add
Added == {j \in Turns : jobPc[j] \in PastAnalyze}

\* C35: the timestamp in the metadata of a memory is the time of its capture,
\* and of two memories the one captured earlier has the earlier timestamp.
C35_TimestampOrdersCaptures ==
    /\ \A j \in Added : jobMeta[j] = RFC3339(jobStamp[j])
    /\ \A j, k \in Added : jobStamp[j] < jobStamp[k] => jobMeta[j] < jobMeta[k]

\* C31: once the configuration is loaded, the capture settings in memory
\* are the ones in config.yaml, after any UpdateConfig and ToggleCapture
\* calls.
C31_MemoryEqualsFile == Initialised => Config = configFile

\* the value a map returned by an operation holds under a key
ValuesOf(map, key) == {pair[2] : pair \in {q \in map : q[1] = key}}

ExceedsCap(img, maxWidth, maxHeight) ==
    \/ maxWidth > 0 /\ img.width > maxWidth
    \/ maxHeight > 0 /\ img.height > maxHeight

\* the differences |a - b|
Dist(a, b) == IF a >= b THEN a - b ELSE b - a

\* C34: an image that exceeds a cap that is set comes out within every cap
\* that is set, scaled down by one factor up to a pixel on each axis (so
\* |h' * w - w' * h| <= w + h); an image within the caps, or captured with both caps 0, is
\* returned unchanged.
C34_ResizedWithinCaps ==
    Called("resize") =>
        LET img == libCall.img
            mw == libCall.maxWidth
            mh == libCall.maxHeight
        IN  IF ExceedsCap(img, mw, mh)
            THEN /\ mw > 0 => libRet.width <= mw
                 /\ mh > 0 => libRet.height <= mh
                 /\ libRet.width <= img.width
                 /\ libRet.height <= img.height
                 /\ Dist(libRet.height * img.width, libRet.width * img.height)
                       <= img.width + img.height
            ELSE libRet = img

=============================================================================
